---- MODULE Spec2Model ----
(***************************************************************************)
(* State-machine model of the dialogue / quest / event core:               *)
(*   core/quests.py      QuestState, QuestManager                          *)
(*   core/dialogue.py    DialogueNode, DialogueSession, DialogueManager    *)
(*   states/play_state.py PlayState (event routing)                        *)
(*                                                                         *)
(* Python values are represented as follows.                               *)
(*   str | None      a string, with None the reserved value below          *)
(*   dict | None     << >> for None, << d >> for a dict d (a function      *)
(*                   from its keys to its values)                          *)
(*   list[str]       a sequence of strings                                 *)
(*   set[str]        a set of strings                                      *)
(***************************************************************************)
EXTENDS Integers, Sequences, FiniteSets, TLC

(***************************************************************************)
(* Bounds of the model.                                                    *)
(***************************************************************************)
\* number of distinct object ids the environment can put in a payload
NumObjectIds == 4

ObjectIdPool == <<"a", "b", "c", "d", "e", "f">>

ObjectIds == {ObjectIdPool[i] : i \in 1..NumObjectIds}

\* handle_event calls returning "quest_completed" that are counted
MaxCompletions == 3

(***************************************************************************)
(* Python value helpers.                                                   *)
(***************************************************************************)
None == "<None>"

\* truth value of a `str | None`: None and the empty string are falsy
Truthy(x) == x # None /\ x # ""

NoPayload == << >>

DictPayload(d) == << d >>

EmptyDict == [k \in {} |-> None]

\* `payload or {}`: None and the empty dict are both falsy
PayloadOrEmpty(payload) ==
    IF Len(payload) = 0 THEN EmptyDict
    ELSE IF DOMAIN payload[1] = {} THEN EmptyDict
    ELSE payload[1]

\* dict.get(key): None when the key is missing
DictGet(d, key) == IF key \in DOMAIN d THEN d[key] ELSE None

(***************************************************************************)
(* core/quests.py                                                          *)
(***************************************************************************)
QUEST_FIND_ARTIFACTS == "find_artifacts"

QuestState(quest_id, description, items_required) ==
    [quest_id        |-> quest_id,
     description     |-> description,
     items_required  |-> items_required,
     items_collected |-> {},
     completed       |-> FALSE]

\* record_item with the count taken before the insertion, as if every item were new
QuestState_record_item_CountBeforeAdd(state, object_id) ==
    IF ~state.completed
    THEN LET added == [state EXCEPT !.items_collected = @ \cup {object_id}]
         IN  IF Cardinality(state.items_collected) + 1 >= state.items_required
             THEN [added EXCEPT !.completed = TRUE]
             ELSE added
    ELSE state

\* record_item with > in place of >=
QuestState_record_item_Greater(state, object_id) ==
    IF ~state.completed
    THEN LET added == [state EXCEPT !.items_collected = @ \cup {object_id}]
         IN  IF Cardinality(added.items_collected) > added.items_required
             THEN [added EXCEPT !.completed = TRUE]
             ELSE added
    ELSE state

\* record_item that recomputes the flag on every call, with == in place of >=
QuestState_record_item_Recompute(state, object_id) ==
    LET added == [state EXCEPT !.items_collected = @ \cup {object_id}]
    IN  [added EXCEPT !.completed = (Cardinality(added.items_collected) = added.items_required)]

\* record_item that completes the quest one item short of items_required
QuestState_record_item_OneShort(state, object_id) ==
    IF ~state.completed
    THEN LET added == [state EXCEPT !.items_collected = @ \cup {object_id}]
         IN  IF Cardinality(added.items_collected) >= added.items_required - 1
             THEN [added EXCEPT !.completed = TRUE]
             ELSE added
    ELSE state

\* QuestState.record_item
QuestState_record_item(state, object_id) ==
    IF ~state.completed
    THEN LET added == [state EXCEPT !.items_collected = @ \cup {object_id}]
         IN  IF Cardinality(added.items_collected) >= added.items_required
             THEN [added EXCEPT !.completed = TRUE]
             ELSE added
    ELSE state

\* QuestManager.__init__
QuestManager_init ==
    (QUEST_FIND_ARTIFACTS :> QuestState(QUEST_FIND_ARTIFACTS, "Gather the three Heart Shards scattered across the region.", 3))

\* handle_event that reports completion whenever the quest is complete after the call
QuestManager_handle_event_NoPreComplete(qs, event_name, payload) ==
    IF event_name # "quest_item_collected"
    THEN [quests |-> qs, ret |-> << >>, error |-> None]
    ELSE LET p         == PayloadOrEmpty(payload)
             object_id == DictGet(p, "object_id")
         IN  IF ~Truthy(object_id)
             THEN [quests |-> qs, ret |-> << >>, error |-> None]
             ELSE LET state    == qs[QUEST_FIND_ARTIFACTS]
                      recorded == QuestState_record_item(state, object_id)
                      after    == [qs EXCEPT ![QUEST_FIND_ARTIFACTS] = recorded]
                  IN  IF recorded.completed
                      THEN [quests |-> after, ret |-> <<"quest_completed">>, error |-> None]
                      ELSE [quests |-> after, ret |-> << >>, error |-> None]

\* handle_event that reads payload["object_id"] and tests it against None only
QuestManager_handle_event_Subscript(qs, event_name, payload) ==
    IF event_name # "quest_item_collected"
    THEN [quests |-> qs, ret |-> << >>, error |-> None]
    ELSE IF Len(payload) = 0
    THEN [quests |-> qs, ret |-> << >>, error |-> "TypeError"]
    ELSE IF "object_id" \notin DOMAIN payload[1]
    THEN [quests |-> qs, ret |-> << >>, error |-> "KeyError"]
    ELSE LET object_id == payload[1]["object_id"]
         IN  IF object_id = None
             THEN [quests |-> qs, ret |-> << >>, error |-> None]
             ELSE LET state        == qs[QUEST_FIND_ARTIFACTS]
                      pre_complete == state.completed
                      recorded     == QuestState_record_item(state, object_id)
                      after        == [qs EXCEPT ![QUEST_FIND_ARTIFACTS] = recorded]
                  IN  IF ~pre_complete /\ recorded.completed
                      THEN [quests |-> after, ret |-> <<"quest_completed">>, error |-> None]
                      ELSE [quests |-> after, ret |-> << >>, error |-> None]

\* handle_event that looks the object id up under the key "id"
QuestManager_handle_event_WrongKey(qs, event_name, payload) ==
    IF event_name # "quest_item_collected"
    THEN [quests |-> qs, ret |-> << >>, error |-> None]
    ELSE LET p         == PayloadOrEmpty(payload)
             object_id == DictGet(p, "id")
         IN  IF ~Truthy(object_id)
             THEN [quests |-> qs, ret |-> << >>, error |-> None]
             ELSE LET state        == qs[QUEST_FIND_ARTIFACTS]
                      pre_complete == state.completed
                      recorded     == QuestState_record_item(state, object_id)
                      after        == [qs EXCEPT ![QUEST_FIND_ARTIFACTS] = recorded]
                  IN  IF ~pre_complete /\ recorded.completed
                      THEN [quests |-> after, ret |-> <<"quest_completed">>, error |-> None]
                      ELSE [quests |-> after, ret |-> << >>, error |-> None]

\* handle_event that accepts every event whose name starts with "quest_item"
QuestManager_handle_event_PrefixMatch(qs, event_name, payload) ==
    IF event_name \notin {"quest_item_collected", "quest_item_dropped"}
    THEN [quests |-> qs, ret |-> << >>, error |-> None]
    ELSE LET p         == PayloadOrEmpty(payload)
             object_id == DictGet(p, "object_id")
         IN  IF ~Truthy(object_id)
             THEN [quests |-> qs, ret |-> << >>, error |-> None]
             ELSE LET state        == qs[QUEST_FIND_ARTIFACTS]
                      pre_complete == state.completed
                      recorded     == QuestState_record_item(state, object_id)
                      after        == [qs EXCEPT ![QUEST_FIND_ARTIFACTS] = recorded]
                  IN  IF ~pre_complete /\ recorded.completed
                      THEN [quests |-> after, ret |-> <<"quest_completed">>, error |-> None]
                      ELSE [quests |-> after, ret |-> << >>, error |-> None]

\* QuestManager.handle_event: the quests afterwards, the returned actions and
\* the exception raised (None: the call returns normally)
QuestManager_handle_event(qs, event_name, payload) ==
    IF event_name # "quest_item_collected"
    THEN [quests |-> qs, ret |-> << >>, error |-> None]
    ELSE LET p         == PayloadOrEmpty(payload)
             object_id == DictGet(p, "object_id")
         IN  IF ~Truthy(object_id)
             THEN [quests |-> qs, ret |-> << >>, error |-> None]
             ELSE LET state        == qs[QUEST_FIND_ARTIFACTS]
                      pre_complete == state.completed
                      recorded     == QuestState_record_item(state, object_id)
                      after        == [qs EXCEPT ![QUEST_FIND_ARTIFACTS] = recorded]
                  IN  IF ~pre_complete /\ recorded.completed
                      THEN [quests |-> after, ret |-> <<"quest_completed">>, error |-> None]
                      ELSE [quests |-> after, ret |-> << >>, error |-> None]

\* quest_completed written with setdefault: an unknown id is inserted into the dict
QuestManager_quest_completed_SetDefault(qs, quest_id) ==
    IF quest_id \in DOMAIN qs
    THEN [quests |-> qs, ret |-> qs[quest_id].completed]
    ELSE [quests |-> qs @@ (quest_id :> QuestState("", "", 0)), ret |-> QuestState("", "", 0).completed]

\* QuestManager.quest_completed: the quests afterwards and the returned flag
QuestManager_quest_completed(qs, quest_id) ==
    [quests |-> qs,
     ret    |-> IF quest_id \in DOMAIN qs
                THEN qs[quest_id].completed
                ELSE QuestState("", "", 0).completed]

(***************************************************************************)
(* core/dialogue.py                                                        *)
(***************************************************************************)
DialogueChoice(text, next_id, event) ==
    [text |-> text, next_id |-> next_id, event |-> event]

DialogueNode(node_id, text, next_id, choices, enter_event, exit_event) ==
    [node_id |-> node_id, text |-> text, next_id |-> next_id, choices |-> choices,
     enter_event |-> enter_event, exit_event |-> exit_event]

\* DialogueNode.has_choices
has_choices(node) == Len(node.choices) > 0

\* one call of the event callback: event_callback(name, {"node_id": node_id})
Delivery(name, node_id) ==
    [name |-> name, payload |-> DictPayload([k \in {"node_id"} |-> node_id])]

\* no session: the value None of a `DialogueSession | None`
NoSession == << >>

\* DialogueSession.current_node
current_node(self) == self.nodes[self.current_id]

\* DialogueSession._dispatch_enter_event: the calls it makes on the callback
dispatch_enter_event(self, node) ==
    IF self.event_callback /\ Truthy(node.enter_event)
    THEN << Delivery(node.enter_event, node.node_id) >>
    ELSE << >>

\* DialogueSession.__init__ that checks every next_id and choice target of the graph
DialogueSession_init_Validating(nodes, start_id, event_callback) ==
    LET targets == {nodes[id].next_id : id \in DOMAIN nodes}
                       \cup UNION {{nodes[id].choices[i].next_id : i \in DOMAIN nodes[id].choices} : id \in DOMAIN nodes}
    IN  IF start_id \notin DOMAIN nodes \/ ~(targets \subseteq (DOMAIN nodes \cup {None}))
        THEN [session |-> << >>, events |-> << >>, error |-> "ValueError"]
        ELSE LET self == [nodes |-> nodes, current_id |-> start_id,
                          event_callback |-> event_callback, choice_index |-> 0]
             IN  [session |-> << self >>, events |-> dispatch_enter_event(self, current_node(self)), error |-> None]

\* DialogueSession.__init__: the session built, the callback calls made, the
\* exception raised (None: construction succeeds)
DialogueSession_init(nodes, start_id, event_callback) ==
    IF start_id \notin DOMAIN nodes
    THEN [session |-> << >>, events |-> << >>, error |-> "ValueError"]
    ELSE LET self == [nodes |-> nodes, current_id |-> start_id,
                      event_callback |-> event_callback, choice_index |-> 0]
         IN  [session |-> << self >>,
              events  |-> dispatch_enter_event(self, current_node(self)),
              error   |-> None]

\* move_choice that stops at the first and at the last choice
DialogueSession_move_choice_Clamping(self, offset) ==
    LET node == current_node(self)
        sum  == self.choice_index + offset
    IN  IF ~has_choices(node)
        THEN self
        ELSE [self EXCEPT !.choice_index = IF sum < 0 THEN 0
                                           ELSE IF sum >= Len(node.choices) THEN Len(node.choices) - 1
                                           ELSE sum]

\* move_choice with a remainder that truncates toward zero, as in C
DialogueSession_move_choice_Truncating(self, offset) ==
    LET node == current_node(self)
        sum  == self.choice_index + offset
    IN  IF ~has_choices(node)
        THEN self
        ELSE [self EXCEPT !.choice_index = IF sum < 0
                                           THEN 0 - ((0 - sum) % Len(node.choices))
                                           ELSE sum % Len(node.choices)]

\* DialogueSession.move_choice
DialogueSession_move_choice(self, offset) ==
    LET node == current_node(self)
    IN  IF ~has_choices(node)
        THEN self
        ELSE [self EXCEPT !.choice_index = (self.choice_index + offset) % Len(node.choices)]

\* the first half of confirm with `choice.next_id or node.next_id` as the target
ConfirmDeparture_FallbackToNode(self) ==
    LET node == current_node(self)
    IN  IF has_choices(node)
        THEN LET choice == node.choices[self.choice_index + 1]
             IN  [events  |-> IF self.event_callback /\ Truthy(choice.event)
                              THEN << Delivery(choice.event, node.node_id) >>
                              ELSE << >>,
                  next_id |-> IF Truthy(choice.next_id) THEN choice.next_id ELSE node.next_id]
        ELSE [events  |-> IF self.event_callback /\ Truthy(node.exit_event)
                          THEN << Delivery(node.exit_event, node.node_id) >>
                          ELSE << >>,
              next_id |-> node.next_id]

\* the first half of confirm with the target's id in the payload
ConfirmDeparture_TargetPayload(self) ==
    LET node == current_node(self)
    IN  IF has_choices(node)
        THEN LET choice == node.choices[self.choice_index + 1]
             IN  [events  |-> IF self.event_callback /\ Truthy(choice.event)
                              THEN << Delivery(choice.event, choice.next_id) >>
                              ELSE << >>,
                  next_id |-> choice.next_id]
        ELSE [events  |-> IF self.event_callback /\ Truthy(node.exit_event)
                          THEN << Delivery(node.exit_event, node.next_id) >>
                          ELSE << >>,
              next_id |-> node.next_id]

\* the first half of confirm with the exit event fired on branching nodes too
ConfirmDeparture_ExitAlways(self) ==
    LET node == current_node(self)
        left == IF self.event_callback /\ Truthy(node.exit_event)
                THEN << Delivery(node.exit_event, node.node_id) >>
                ELSE << >>
    IN  IF has_choices(node)
        THEN LET choice == node.choices[self.choice_index + 1]
             IN  [events  |-> (IF self.event_callback /\ Truthy(choice.event)
                               THEN << Delivery(choice.event, node.node_id) >>
                               ELSE << >>) \o left,
                  next_id |-> choice.next_id]
        ELSE [events |-> left, next_id |-> node.next_id]

\* the first half of confirm: the departing node's event and the target
ConfirmDeparture(self) ==
    LET node == current_node(self)
    IN  IF has_choices(node)
        THEN LET choice == node.choices[self.choice_index + 1]
             IN  [events  |-> IF self.event_callback /\ Truthy(choice.event)
                              THEN << Delivery(choice.event, node.node_id) >>
                              ELSE << >>,
                  next_id |-> choice.next_id]
        ELSE [events  |-> IF self.event_callback /\ Truthy(node.exit_event)
                          THEN << Delivery(node.exit_event, node.node_id) >>
                          ELSE << >>,
              next_id |-> node.next_id]

\* confirm that enters the new node before it reports the departure
DialogueSession_confirm_EnterFirst(self) ==
    LET dep     == ConfirmDeparture(self)
        next_id == dep.next_id
    IN  IF next_id = None
        THEN [session |-> self, events |-> dep.events, ret |-> TRUE, error |-> None]
        ELSE IF next_id \notin DOMAIN self.nodes
        THEN [session |-> self, events |-> dep.events, ret |-> FALSE, error |-> "ValueError"]
        ELSE LET moved == [self EXCEPT !.current_id = next_id, !.choice_index = 0]
             IN  [session |-> moved,
                  events  |-> dispatch_enter_event(moved, current_node(moved)) \o dep.events,
                  ret     |-> FALSE,
                  error   |-> None]

\* confirm that resets choice_index when the dialogue finishes
DialogueSession_confirm_ResetOnFinish(self) ==
    LET dep     == ConfirmDeparture(self)
        next_id == dep.next_id
    IN  IF next_id = None
        THEN [session |-> [self EXCEPT !.choice_index = 0], events |-> dep.events, ret |-> TRUE, error |-> None]
        ELSE IF next_id \notin DOMAIN self.nodes
        THEN [session |-> self, events |-> dep.events, ret |-> FALSE, error |-> "ValueError"]
        ELSE LET moved == [self EXCEPT !.current_id = next_id, !.choice_index = 0]
             IN  [session |-> moved,
                  events  |-> dep.events \o dispatch_enter_event(moved, current_node(moved)),
                  ret     |-> FALSE,
                  error   |-> None]

\* confirm that keeps choice_index when it moves
DialogueSession_confirm_KeepIndex(self) ==
    LET dep     == ConfirmDeparture(self)
        next_id == dep.next_id
    IN  IF next_id = None
        THEN [session |-> self, events |-> dep.events, ret |-> TRUE, error |-> None]
        ELSE IF next_id \notin DOMAIN self.nodes
        THEN [session |-> self, events |-> dep.events, ret |-> FALSE, error |-> "ValueError"]
        ELSE LET moved == [self EXCEPT !.current_id = next_id]
             IN  [session |-> moved,
                  events  |-> dep.events \o dispatch_enter_event(moved, current_node(moved)),
                  ret     |-> FALSE,
                  error   |-> None]

\* confirm that assigns current_id and choice_index before it looks the target up
DialogueSession_confirm_AssignBeforeCheck(self) ==
    LET dep     == ConfirmDeparture(self)
        next_id == dep.next_id
    IN  IF next_id = None
        THEN [session |-> self, events |-> dep.events, ret |-> TRUE, error |-> None]
        ELSE LET moved == [self EXCEPT !.current_id = next_id, !.choice_index = 0]
             IN  IF next_id \notin DOMAIN self.nodes
                 THEN [session |-> moved, events |-> dep.events, ret |-> FALSE, error |-> "ValueError"]
                 ELSE [session |-> moved,
                       events  |-> dep.events \o dispatch_enter_event(moved, current_node(moved)),
                       ret     |-> FALSE,
                       error   |-> None]

\* confirm that returns False at the end of the dialogue as well
DialogueSession_confirm_NeverComplete(self) ==
    LET dep     == ConfirmDeparture(self)
        next_id == dep.next_id
    IN  IF next_id = None
        THEN [session |-> self, events |-> dep.events, ret |-> FALSE, error |-> None]
        ELSE IF next_id \notin DOMAIN self.nodes
        THEN [session |-> self, events |-> dep.events, ret |-> FALSE, error |-> "ValueError"]
        ELSE LET moved == [self EXCEPT !.current_id = next_id, !.choice_index = 0]
             IN  [session |-> moved,
                  events  |-> dep.events \o dispatch_enter_event(moved, current_node(moved)),
                  ret     |-> FALSE,
                  error   |-> None]

\* DialogueSession.confirm: the session afterwards, the callback calls made in
\* order, the value returned (TRUE: the dialogue finished) and the exception
\* raised (None: the call returns)
DialogueSession_confirm(self) ==
    LET dep     == ConfirmDeparture(self)
        next_id == dep.next_id
    IN  IF next_id = None
        THEN [session |-> self, events |-> dep.events, ret |-> TRUE, error |-> None]
        ELSE IF next_id \notin DOMAIN self.nodes
        THEN [session |-> self, events |-> dep.events, ret |-> FALSE, error |-> "ValueError"]
        ELSE LET moved == [self EXCEPT !.current_id = next_id, !.choice_index = 0]
             IN  [session |-> moved,
                  events  |-> dep.events \o dispatch_enter_event(moved, current_node(moved)),
                  ret     |-> FALSE,
                  error   |-> None]

\* cancel that fires the node's enter_event in place of its exit_event
DialogueSession_cancel_EnterEvent(self) ==
    LET node == current_node(self)
    IN  IF self.event_callback /\ Truthy(node.enter_event)
        THEN << Delivery(node.enter_event, node.node_id) >>
        ELSE << >>

\* DialogueSession.cancel: the callback calls it makes
DialogueSession_cancel(self) ==
    LET node == current_node(self)
    IN  IF self.event_callback /\ Truthy(node.exit_event)
        THEN << Delivery(node.exit_event, node.node_id) >>
        ELSE << >>

\* DialogueManager.__init__
DialogueManager_init == [id \in {} |-> << >>]

\* register that updates the mapping already stored under the dialogue id
DialogueManager_register_Merge(registry, dialogue_id, nodes) ==
    LET ids     == {nodes[i].node_id : i \in DOMAIN nodes}
        last(id) == CHOOSE i \in DOMAIN nodes :
                        /\ nodes[i].node_id = id
                        /\ \A j \in DOMAIN nodes : nodes[j].node_id = id => j <= i
        mapping == [id \in ids |-> nodes[last(id)]]
        old     == IF dialogue_id \in DOMAIN registry THEN registry[dialogue_id] ELSE [id \in {} |-> << >>]
    IN  (dialogue_id :> (mapping @@ old)) @@ registry

\* DialogueManager.register: the registry afterwards
DialogueManager_register(registry, dialogue_id, nodes) ==
    LET ids     == {nodes[i].node_id : i \in DOMAIN nodes}
        last(id) == CHOOSE i \in DOMAIN nodes :
                        /\ nodes[i].node_id = id
                        /\ \A j \in DOMAIN nodes : nodes[j].node_id = id => j <= i
        mapping == [id \in ids |-> nodes[last(id)]]
    IN  (dialogue_id :> mapping) @@ registry

\* register that refills the dict already bound to the id, the dict that the
\* sessions started from it hold
HeldNodesAfterRegister_InPlace(held, registry, dialogue_id, nodes) ==
    IF dialogue_id \in DOMAIN registry /\ registry[dialogue_id] = held
    THEN DialogueManager_register(registry, dialogue_id, nodes)[dialogue_id]
    ELSE held

\* the dict `held` by a live session (DialogueSession.nodes is the very dict
\* start() took from the registry) once register(dialogue_id, nodes) has run:
\* register builds a new dict and binds it to the id, no dict is changed
HeldNodesAfterRegister(held, registry, dialogue_id, nodes) == held

\* start that returns None for a dialogue id that is not registered
DialogueManager_start_Silent(registry, event_callback, dialogue_id, start_node) ==
    IF dialogue_id \notin DOMAIN registry
    THEN [session |-> << >>, events |-> << >>, error |-> None]
    ELSE DialogueSession_init(registry[dialogue_id], start_node, event_callback)

\* DialogueManager.start
DialogueManager_start(registry, event_callback, dialogue_id, start_node) ==
    IF dialogue_id \notin DOMAIN registry
    THEN [session |-> << >>, events |-> << >>, error |-> "ValueError"]
    ELSE DialogueSession_init(registry[dialogue_id], start_node, event_callback)

(***************************************************************************)
(* entities/interactables.py, world/map_manager.py                         *)
(***************************************************************************)
MAP_OUTSIDE_VILLAGE == "outside_village"

MAP_INTERIOR_HOME == "interior_home"

MAP_OUTSIDE_FOREST == "outside_forest"

NoSpawn == << >>

\* NPC(object_id, rect, dialogue_id)
NPC(object_id, dialogue_id) ==
    [kind |-> "npc", object_id |-> object_id, enabled |-> TRUE, dialogue_id |-> dialogue_id,
     target_map |-> None, target_spawn |-> NoSpawn, quest_event |-> None]

\* DoorInteractable(object_id, rect, target_map, target_spawn, dialogue_id=None)
DoorInteractable(object_id, target_map, target_spawn, dialogue_id) ==
    [kind |-> "door", object_id |-> object_id, enabled |-> TRUE, dialogue_id |-> dialogue_id,
     target_map |-> target_map, target_spawn |-> target_spawn, quest_event |-> None]

\* QuestItem(object_id, rect, dialogue_id, quest_event)
QuestItem(object_id, dialogue_id, quest_event) ==
    [kind |-> "quest_item", object_id |-> object_id, enabled |-> TRUE, dialogue_id |-> dialogue_id,
     target_map |-> None, target_spawn |-> NoSpawn, quest_event |-> quest_event]

\* LoreObject(object_id, rect, dialogue_id)
LoreObject(object_id, dialogue_id) ==
    [kind |-> "lore", object_id |-> object_id, enabled |-> TRUE, dialogue_id |-> dialogue_id,
     target_map |-> None, target_spawn |-> NoSpawn, quest_event |-> None]

\* _create_map_definitions / GameMap.__init__: the interactables of each map;
\* those of the village are followed by the ones its TMX file supplies
MapInteractables(tmx_interactables) ==
    (MAP_OUTSIDE_VILLAGE :>
        << DoorInteractable("home_front_door", MAP_INTERIOR_HOME, <<220, 360>>, None),
           NPC("npc_mia", "mia_intro"),
           LoreObject("village_sign", "village_sign"),
           QuestItem("quest_totem_a", "quest_item_a", "quest_item_collected"),
           QuestItem("quest_totem_b", "quest_item_b", "quest_item_collected"),
           QuestItem("quest_totem_c", "quest_item_c", "quest_item_collected") >>
        \o tmx_interactables)
    @@ (MAP_INTERIOR_HOME :>
        << DoorInteractable("home_exit", MAP_OUTSIDE_VILLAGE, <<760, 620>>, None),
           LoreObject("bookshelf", "bookshelf") >>)
    @@ (MAP_OUTSIDE_FOREST :>
        << NPC("elder_rhea", "quest_complete"),
           LoreObject("forest_shrine", "forest_shrine") >>)

\* MapManager.find_interactable: the position in the current map's list of the
\* first interactable with that id, 0 when there is none
find_interactable(h, object_id) ==
    LET list == h.interactables[h.current_map]
        hits == {i \in DOMAIN list : list[i].object_id = object_id}
    IN  IF hits = {} THEN 0 ELSE CHOOSE i \in hits : \A j \in hits : i <= j

(***************************************************************************)
(* states/play_state.py.  A PlayState is the record h of its fields.       *)
(***************************************************************************)
\* PlayState._register_dialogues: the (dialogue_id, nodes) pairs registered, in
\* order; node texts are display-only and left empty
BuiltinDialogues ==
    <<
    << "mia_intro",
        << DialogueNode("root", "", "line2", << >>, None, None),
           DialogueNode("line2", "", "line3", << >>, None, None),
           DialogueNode("line3", "", "line4", << >>, None, None),
           DialogueNode("line4", "", "line5", << >>, None, None),
           DialogueNode("line5", "", "line6", << >>, None, None),
           DialogueNode("line6", "", None, << >>, None, "quest_begin") >> >>,
    << "mia_confession",
        << DialogueNode("root", "", "confession_2", << >>, None, None),
           DialogueNode("confession_2", "", "confession_3", << >>, None, None),
           DialogueNode("confession_3", "", "confession_4", << >>, None, None),
           DialogueNode("confession_4", "", "confession_5", << >>, None, None),
           DialogueNode("confession_5", "", "confession_6", << >>, None, None),
           DialogueNode("confession_6", "", "confession_7", << >>, None, None),
           DialogueNode("confession_7", "", "confession_8", << >>, None, None),
           DialogueNode("confession_8", "", "proposal", << >>, None, None),
           DialogueNode("proposal", "", None, << DialogueChoice("[ Yes ]", "accept", None), DialogueChoice("[ Of course ]", "accept", None) >>, None, None),
           DialogueNode("accept", "", "accept_2", << >>, None, None),
           DialogueNode("accept_2", "", "accept_3", << >>, None, None),
           DialogueNode("accept_3", "", "ending", << >>, None, None),
           DialogueNode("ending", "", None, << >>, None, "show_ending") >> >>,
    << "mia_epilogue",
        << DialogueNode("root", "", None, << >>, None, None) >> >>,
    << "sally_missing",
        << DialogueNode("root", "", "clue", << >>, None, None),
           DialogueNode("clue", "", None, << >>, None, None) >> >>,
    << "sally_flower_item",
        << DialogueNode("root", "", None, << >>, None, None) >> >>,
    << "sally_thanks",
        << DialogueNode("root", "", "shimmer", << >>, None, None),
           DialogueNode("shimmer", "", "reward", << >>, None, None),
           DialogueNode("reward", "", None, << >>, None, "sally_complete") >> >>,
    << "sally_repeat",
        << DialogueNode("root", "", None, << >>, None, None) >> >>,
    << "quest_item_a",
        << DialogueNode("root", "", None, << >>, None, None) >> >>,
    << "quest_item_b",
        << DialogueNode("root", "", None, << >>, None, None) >> >>,
    << "quest_item_c",
        << DialogueNode("root", "", None, << >>, None, None) >> >>,
    << "village_sign",
        << DialogueNode("root", "", None, << >>, None, None) >> >>,
    << "bookshelf",
        << DialogueNode("root", "", None, << >>, None, None) >> >>,
    << "forest_shrine",
        << DialogueNode("root", "", None, << >>, None, None) >> >>,
    << "quest_complete",
        << DialogueNode("root", "", "continue", << >>, None, None),
           DialogueNode("continue", "", None, << >>, None, "quest_turn_in") >> >>,
    << "quest_epilogue",
        << DialogueNode("root", "", None, << >>, None, None) >> >>
    >>

RECURSIVE RegisterAll(_, _)
\* the registry after the register() calls of a list of (dialogue_id, nodes) pairs
RegisterAll(registry, pairs) ==
    IF pairs = << >> THEN registry
    ELSE RegisterAll(DialogueManager_register(registry, pairs[1][1], pairs[1][2]), Tail(pairs))

NoMapChange == << >>

\* PlayState.request_map_change
request_map_change(h, map_id, spawn) ==
    [h EXCEPT !.pending_map_change = << [map_id |-> map_id, spawn |-> spawn] >>]

\* `x = self._get_interactable(id); if x and isinstance(x, NPC): x.set_dialogue(d)`
RebindNpc(h, object_id, dialogue_id) ==
    LET i == find_interactable(h, object_id)
    IN  IF i # 0 /\ h.interactables[h.current_map][i].kind = "npc"
        THEN [h EXCEPT !.interactables[h.current_map][i].dialogue_id = dialogue_id]
        ELSE h

\* PlayState._on_quest_completed
on_quest_completed(h) ==
    [RebindNpc(h, "npc_mia", "mia_confession")
        EXCEPT !.current_prompt = "Return to the cloaked figure when you feel ready."]

RECURSIVE RunActions_Misspelt(_, _)
\* the loop over triggered with the action name misspelt
RunActions_Misspelt(h, triggered) ==
    IF triggered = << >> THEN h
    ELSE RunActions_Misspelt(IF triggered[1] = "quest_complete" THEN on_quest_completed(h) ELSE h,
                             Tail(triggered))

RECURSIVE RunActions(_, _)
\* `for action in triggered: if action == "quest_completed": self._on_quest_completed()`
RunActions(h, triggered) ==
    IF triggered = << >> THEN h
    ELSE RunActions(IF triggered[1] = "quest_completed" THEN on_quest_completed(h) ELSE h,
                    Tail(triggered))

\* notify_event whose "flower_found" handler does not return
PlayState_notify_event_FallThrough(h, event_name, payload) ==
    IF event_name = "travel_to_forest"
    THEN [host |-> request_map_change(h, MAP_OUTSIDE_FOREST, <<900, 1100>>), triggered |-> << >>, forwarded |-> FALSE, error |-> None]
    ELSE IF event_name = "quest_begin"
    THEN [host |-> [h EXCEPT !.current_prompt = "Collect the three Heart Shards the cloaked figure described."],
          triggered |-> << >>, forwarded |-> FALSE, error |-> None]
    ELSE IF event_name = "quest_turn_in"
    THEN [host |-> [RebindNpc(h, "elder_rhea", "quest_epilogue")
                        EXCEPT !.current_prompt = "Return to the cloaked figure when you are ready."],
          triggered |-> << >>, forwarded |-> FALSE, error |-> None]
    ELSE IF event_name = "flower_found"
    THEN LET h1 == [RebindNpc(h, "npc_sally", "sally_thanks") EXCEPT !.current_prompt = None]
             r  == QuestManager_handle_event(h1.quests, event_name, DictPayload(PayloadOrEmpty(payload)))
         IN  [host      |-> RunActions([h1 EXCEPT !.quests = r.quests], r.ret),
              triggered |-> r.ret,
              forwarded |-> TRUE,
              error     |-> r.error]
    ELSE IF event_name = "sally_complete"
    THEN [host |-> [RebindNpc(h, "npc_sally", "sally_repeat") EXCEPT !.current_prompt = "You obtained a Heart Shard!"],
          triggered |-> << >>, forwarded |-> FALSE, error |-> None]
    ELSE IF event_name = "show_ending"
    THEN [host |-> [RebindNpc(h, "npc_mia", "mia_epilogue")
                        EXCEPT !.end_screen_active = TRUE, !.active_dialogue = NoSession,
                               !.current_prompt = None, !.focus_interactable = << >>],
          triggered |-> << >>, forwarded |-> FALSE, error |-> None]
    ELSE LET r == QuestManager_handle_event(h.quests, event_name, DictPayload(PayloadOrEmpty(payload)))
         IN  [host      |-> RunActions([h EXCEPT !.quests = r.quests], r.ret),
              triggered |-> r.ret,
              forwarded |-> TRUE,
              error     |-> r.error]

\* PlayState.notify_event: the state afterwards, what QuestManager.handle_event
\* returned (<< >> when it was not called), whether it was called, and the
\* exception raised
PlayState_notify_event(h, event_name, payload) ==
    IF event_name = "travel_to_forest"
    THEN [host |-> request_map_change(h, MAP_OUTSIDE_FOREST, <<900, 1100>>), triggered |-> << >>, forwarded |-> FALSE, error |-> None]
    ELSE IF event_name = "quest_begin"
    THEN [host |-> [h EXCEPT !.current_prompt = "Collect the three Heart Shards the cloaked figure described."],
          triggered |-> << >>, forwarded |-> FALSE, error |-> None]
    ELSE IF event_name = "quest_turn_in"
    THEN [host |-> [RebindNpc(h, "elder_rhea", "quest_epilogue")
                        EXCEPT !.current_prompt = "Return to the cloaked figure when you are ready."],
          triggered |-> << >>, forwarded |-> FALSE, error |-> None]
    ELSE IF event_name = "flower_found"
    THEN [host |-> [RebindNpc(h, "npc_sally", "sally_thanks") EXCEPT !.current_prompt = None],
          triggered |-> << >>, forwarded |-> FALSE, error |-> None]
    ELSE IF event_name = "sally_complete"
    THEN [host |-> [RebindNpc(h, "npc_sally", "sally_repeat") EXCEPT !.current_prompt = "You obtained a Heart Shard!"],
          triggered |-> << >>, forwarded |-> FALSE, error |-> None]
    ELSE IF event_name = "show_ending"
    THEN [host |-> [RebindNpc(h, "npc_mia", "mia_epilogue")
                        EXCEPT !.end_screen_active = TRUE, !.active_dialogue = NoSession,
                               !.current_prompt = None, !.focus_interactable = << >>],
          triggered |-> << >>, forwarded |-> FALSE, error |-> None]
    ELSE LET r == QuestManager_handle_event(h.quests, event_name, DictPayload(PayloadOrEmpty(payload)))
         IN  [host      |-> RunActions([h EXCEPT !.quests = r.quests], r.ret),
              triggered |-> r.ret,
              forwarded |-> TRUE,
              error     |-> r.error]

RECURSIVE DeliverAll(_, _)
\* the callback calls a session makes, handed to notify_event one after the other
DeliverAll(h, events) ==
    IF events = << >> THEN h
    ELSE DeliverAll(PlayState_notify_event(h, events[1].name, events[1].payload).host, Tail(events))

\* begin_dialogue that assigns active_dialogue before the start node's enter
\* event reaches notify_event
begin_dialogue_AssignFirst(h, registry, dialogue_id, start_node) ==
    LET r == DialogueManager_start(registry, TRUE, dialogue_id,
                                   IF Truthy(start_node) THEN start_node ELSE "root")
    IN  IF r.error # None
        THEN [host |-> h, error |-> r.error, events |-> r.events]
        ELSE [host   |-> DeliverAll([h EXCEPT !.active_dialogue = r.session], r.events),
              error  |-> None,
              events |-> r.events]

\* begin_dialogue that cancels the session it replaces
begin_dialogue_CancelPrior(h, registry, dialogue_id, start_node) ==
    LET left == IF h.active_dialogue = NoSession THEN << >> ELSE DialogueSession_cancel(h.active_dialogue[1])
        r    == DialogueManager_start(registry, TRUE, dialogue_id,
                                      IF Truthy(start_node) THEN start_node ELSE "root")
        h1   == DeliverAll(h, left \o r.events)
    IN  IF r.error # None
        THEN [host |-> h1, error |-> r.error, events |-> left \o r.events]
        ELSE [host |-> [h1 EXCEPT !.active_dialogue = r.session], error |-> None, events |-> left \o r.events]

\* PlayState.begin_dialogue: the start node's enter event is delivered while
\* active_dialogue still holds its old value; the assignment follows, unless
\* start raised; events are the callback calls made during the call
begin_dialogue(h, registry, dialogue_id, start_node) ==
    LET r  == DialogueManager_start(registry, TRUE, dialogue_id,
                                    IF Truthy(start_node) THEN start_node ELSE "root")
        h1 == DeliverAll(h, r.events)
    IN  IF r.error # None
        THEN [host |-> h1, error |-> r.error, events |-> r.events]
        ELSE [host |-> [h1 EXCEPT !.active_dialogue = r.session], error |-> None, events |-> r.events]

\* interact whose quest item delivers its event before it starts its dialogue
interact_EventFirst(h, registry, m, i) ==
    LET it == h.interactables[m][i]
    IN  IF it.kind = "door"
        THEN LET b == IF Truthy(it.dialogue_id)
                      THEN begin_dialogue(h, registry, it.dialogue_id, None)
                      ELSE [host |-> h, error |-> None]
             IN  IF b.error # None THEN b
                 ELSE [host |-> request_map_change(b.host, it.target_map, it.target_spawn), error |-> None]
        ELSE IF it.kind = "quest_item"
        THEN LET n == PlayState_notify_event(h, it.quest_event,
                                             DictPayload([k \in {"object_id"} |-> it.object_id]))
                 b == begin_dialogue(n.host, registry, it.dialogue_id, None)
             IN  IF b.error # None THEN b
                 ELSE [host |-> [b.host EXCEPT !.interactables[m][i].enabled = FALSE], error |-> n.error]
        ELSE begin_dialogue(h, registry, it.dialogue_id, None)

\* Interactable.interact of the four kinds, on the interactable at position i
\* of map m
interact(h, registry, m, i) ==
    LET it == h.interactables[m][i]
    IN  IF it.kind = "door"
        THEN LET b == IF Truthy(it.dialogue_id)
                      THEN begin_dialogue(h, registry, it.dialogue_id, None)
                      ELSE [host |-> h, error |-> None]
             IN  IF b.error # None THEN b
                 ELSE [host |-> request_map_change(b.host, it.target_map, it.target_spawn), error |-> None]
        ELSE IF it.kind = "quest_item"
        THEN LET b == begin_dialogue(h, registry, it.dialogue_id, None)
             IN  IF b.error # None THEN b
                 ELSE LET n == PlayState_notify_event(b.host, it.quest_event,
                                                      DictPayload([k \in {"object_id"} |-> it.object_id]))
                      IN  [host |-> [n.host EXCEPT !.interactables[m][i].enabled = FALSE], error |-> n.error]
        ELSE begin_dialogue(h, registry, it.dialogue_id, None)

\* PlayState._attempt_interaction
attempt_interaction(h, registry) ==
    IF h.focus_interactable = << >>
    THEN [host |-> h, error |-> None]
    ELSE interact(h, registry, h.focus_interactable[1].map, h.focus_interactable[1].index)

\* the session object is changed in place: active_dialogue shows the change
\* unless a handler has set active_dialogue to None in the meantime
SessionMutated(h, s) ==
    IF h.active_dialogue = NoSession THEN h ELSE [h EXCEPT !.active_dialogue = << s >>]

\* _handle_dialogue_input whose cancel keys drop the session without calling cancel()
handle_dialogue_input_CancelSilent(h, key) ==
    IF h.active_dialogue = NoSession
    THEN [host |-> h, error |-> None]
    ELSE LET s == h.active_dialogue[1]
         IN  IF key \in {"K_UP", "K_w"}
             THEN [host |-> SessionMutated(h, DialogueSession_move_choice(s, -1)), error |-> None]
             ELSE IF key \in {"K_DOWN", "K_s"}
             THEN [host |-> SessionMutated(h, DialogueSession_move_choice(s, 1)), error |-> None]
             ELSE IF key \in {"K_RETURN", "K_SPACE", "K_e"}
             THEN LET r  == DialogueSession_confirm(s)
                      h1 == SessionMutated(DeliverAll(h, r.events), r.session)
                  IN  IF r.error # None
                      THEN [host |-> h1, error |-> r.error]
                      ELSE IF r.ret
                      THEN [host |-> [h1 EXCEPT !.active_dialogue = NoSession, !.current_prompt = None],
                            error |-> None]
                      ELSE [host |-> h1, error |-> None]
             ELSE IF key \in {"K_ESCAPE", "K_q"}
             THEN [host |-> [h EXCEPT !.active_dialogue = NoSession, !.current_prompt = None],
                   error |-> None]
             ELSE [host |-> h, error |-> None]

\* _handle_dialogue_input that undoes the handlers' effects when confirm() raises
handle_dialogue_input_RollBack(h, key) ==
    IF h.active_dialogue = NoSession
    THEN [host |-> h, error |-> None]
    ELSE LET s == h.active_dialogue[1]
         IN  IF key \in {"K_UP", "K_w"}
             THEN [host |-> SessionMutated(h, DialogueSession_move_choice(s, -1)), error |-> None]
             ELSE IF key \in {"K_DOWN", "K_s"}
             THEN [host |-> SessionMutated(h, DialogueSession_move_choice(s, 1)), error |-> None]
             ELSE IF key \in {"K_RETURN", "K_SPACE", "K_e"}
             THEN LET r  == DialogueSession_confirm(s)
                      h1 == SessionMutated(DeliverAll(h, r.events), r.session)
                  IN  IF r.error # None
                      THEN [host |-> h, error |-> r.error]
                      ELSE IF r.ret
                      THEN [host |-> [h1 EXCEPT !.active_dialogue = NoSession, !.current_prompt = None],
                            error |-> None]
                      ELSE [host |-> h1, error |-> None]
             ELSE IF key \in {"K_ESCAPE", "K_q"}
             THEN [host |-> [DeliverAll(h, DialogueSession_cancel(s))
                                 EXCEPT !.active_dialogue = NoSession, !.current_prompt = None],
                   error |-> None]
             ELSE [host |-> h, error |-> None]

\* PlayState._handle_dialogue_input
handle_dialogue_input(h, key) ==
    IF h.active_dialogue = NoSession
    THEN [host |-> h, error |-> None]
    ELSE LET s == h.active_dialogue[1]
         IN  IF key \in {"K_UP", "K_w"}
             THEN [host |-> SessionMutated(h, DialogueSession_move_choice(s, -1)), error |-> None]
             ELSE IF key \in {"K_DOWN", "K_s"}
             THEN [host |-> SessionMutated(h, DialogueSession_move_choice(s, 1)), error |-> None]
             ELSE IF key \in {"K_RETURN", "K_SPACE", "K_e"}
             THEN LET r  == DialogueSession_confirm(s)
                      h1 == SessionMutated(DeliverAll(h, r.events), r.session)
                  IN  IF r.error # None
                      THEN [host |-> h1, error |-> r.error]
                      ELSE IF r.ret
                      THEN [host |-> [h1 EXCEPT !.active_dialogue = NoSession, !.current_prompt = None],
                            error |-> None]
                      ELSE [host |-> h1, error |-> None]
             ELSE IF key \in {"K_ESCAPE", "K_q"}
             THEN [host |-> [DeliverAll(h, DialogueSession_cancel(s))
                                 EXCEPT !.active_dialogue = NoSession, !.current_prompt = None],
                   error |-> None]
             ELSE [host |-> h, error |-> None]

\* handle_event that tries the interaction key before it looks for a session
PlayState_handle_event_InteractFirst(h, registry, key) ==
    IF h.end_screen_active
    THEN IF key \in {"K_ESCAPE", "K_RETURN", "K_SPACE"}
         THEN [host |-> [h EXCEPT !.left = TRUE], error |-> None]
         ELSE [host |-> h, error |-> None]
    ELSE IF key = "K_e" /\ h.focus_interactable # << >>
    THEN attempt_interaction(h, registry)
    ELSE IF h.active_dialogue # NoSession
    THEN handle_dialogue_input(h, key)
    ELSE [host |-> h, error |-> None]

\* PlayState.handle_event for a KEYDOWN event
PlayState_handle_event(h, registry, key) ==
    IF h.end_screen_active
    THEN IF key \in {"K_ESCAPE", "K_RETURN", "K_SPACE"}
         THEN [host |-> [h EXCEPT !.left = TRUE], error |-> None]
         ELSE [host |-> h, error |-> None]
    ELSE IF h.active_dialogue # NoSession
    THEN handle_dialogue_input(h, key)
    ELSE IF key = "K_e"
    THEN attempt_interaction(h, registry)
    ELSE [host |-> h, error |-> None]

\* PlayState._update_focus_interactable; can_interact is `enabled and the
\* inflated rect touches the player`, the player touching at most the
\* interactable at position player_near (0: none)
update_focus_interactable(h) ==
    IF h.end_screen_active
    THEN [h EXCEPT !.focus_interactable = << >>, !.current_prompt = None]
    ELSE LET list  == h.interactables[h.current_map]
             focus == IF h.player_near \in DOMAIN list /\ list[h.player_near].enabled
                      THEN << [map |-> h.current_map, index |-> h.player_near] >>
                      ELSE << >>
         IN  [h EXCEPT !.focus_interactable = focus,
                       !.current_prompt = IF focus # << >> THEN "Press [E] to Interact" ELSE None]

\* update that applies a pending map change whether or not a dialogue is active
PlayState_update_ApplyDuringDialogue(h, moved_to) ==
    IF h.end_screen_active
    THEN [host |-> h, error |-> None]
    ELSE LET h1 == IF h.active_dialogue = NoSession THEN [h EXCEPT !.player_near = moved_to] ELSE h
             h2 == update_focus_interactable(h1)
         IN  IF h2.pending_map_change # NoMapChange
             THEN LET map_id == h2.pending_map_change[1].map_id
                  IN  IF map_id \notin DOMAIN h2.interactables
                      THEN [host |-> h2, error |-> "KeyError"]
                      ELSE [host |-> [h2 EXCEPT !.current_map = map_id,
                                                !.player_near = 0,
                                                !.pending_map_change = NoMapChange],
                            error |-> None]
             ELSE [host |-> h2, error |-> None]

\* update without the early return on the end screen
PlayState_update_NoEndGuard(h, moved_to) ==
    LET h1 == IF h.active_dialogue = NoSession THEN [h EXCEPT !.player_near = moved_to] ELSE h
        h2 == update_focus_interactable(h1)
    IN  IF h2.pending_map_change # NoMapChange /\ h2.active_dialogue = NoSession
        THEN LET map_id == h2.pending_map_change[1].map_id
             IN  IF map_id \notin DOMAIN h2.interactables
                 THEN [host |-> h2, error |-> "KeyError"]
                 ELSE [host |-> [h2 EXCEPT !.current_map = map_id,
                                           !.player_near = 0,
                                           !.pending_map_change = NoMapChange],
                       error |-> None]
        ELSE [host |-> h2, error |-> None]

\* PlayState.update; moved_to is where Player.update takes the player: next to
\* the interactable at that position of the current map, or to none (0)
PlayState_update(h, moved_to) ==
    IF h.end_screen_active
    THEN [host |-> h, error |-> None]
    ELSE LET h1 == IF h.active_dialogue = NoSession THEN [h EXCEPT !.player_near = moved_to] ELSE h
             h2 == update_focus_interactable(h1)
         IN  IF h2.pending_map_change # NoMapChange /\ h2.active_dialogue = NoSession
             THEN LET map_id == h2.pending_map_change[1].map_id
                  IN  IF map_id \notin DOMAIN h2.interactables
                      THEN [host |-> h2, error |-> "KeyError"]
                      \* Player(spawn_pos): none of the spawn points used by the doors
                      \* and by travel_to_forest touches an interactable of the target map
                      ELSE [host |-> [h2 EXCEPT !.current_map = map_id,
                                                !.player_near = 0,
                                                !.pending_map_change = NoMapChange],
                            error |-> None]
             ELSE [host |-> h2, error |-> None]

\* PlayState.__init__ with the interactables the village's TMX file supplies
PlayState_init(tmx_interactables) ==
    [current_map        |-> MAP_OUTSIDE_VILLAGE,
     interactables      |-> MapInteractables(tmx_interactables),
     player_near        |-> 0,
     active_dialogue    |-> NoSession,
     quests             |-> QuestManager_init,
     pending_map_change |-> NoMapChange,
     current_prompt     |-> None,
     focus_interactable |-> << >>,
     end_screen_active  |-> FALSE,
     left               |-> FALSE]

(***************************************************************************)
(* State.                                                                  *)
(***************************************************************************)
VARIABLES
    quests,        \* QuestManager.quests of a quest manager used on its own
    q_last,        \* the last call on the quest manager: arguments, state before, result
    q_fed,         \* the distinct non-empty object ids fed so far by quest_item_collected events
    q_direct,      \* whether record_item was ever called other than through handle_event
    q_completions, \* number of handle_event calls so far that returned "quest_completed"
    dialogues,     \* DialogueManager.dialogues of a dialogue manager used on its own
    dm_callback,   \* DialogueManager.event_callback is set (TRUE) or None (FALSE)
    session,       \* the DialogueSession held by the caller of DialogueManager.start: << >> or << s >>
    d_last,        \* the last call on the dialogue manager or session: arguments, session before, result
    play,          \* the PlayState: << >> before it is constructed, else << h >>
    h_last         \* the last call on the PlayState: the method, a notified event and its result

questVars == <<quests, q_last, q_fed, q_direct, q_completions>>

dialogueVars == <<dialogues, dm_callback, session, d_last>>

hostVars == <<play, h_last>>

vars == <<questVars, dialogueVars, hostVars>>

\* what the quest operations leave alone
outsideQuest == <<dialogueVars, hostVars>>

\* what the dialogue operations leave alone
outsideDialogue == <<questVars, hostVars>>

\* what the PlayState operations leave alone: the quest manager and the
\* dialogue manager used on their own
outsideHost == <<questVars, dialogueVars>>

\* the tracked quest
Tracked == quests[QUEST_FIND_ARTIFACTS]

NoCall ==
    [op |-> "init", event_name |-> "", payload |-> NoPayload, arg |-> "",
     pre |-> QuestManager_init, fed_pre |-> {}, actions |-> << >>, flag |-> FALSE, error |-> None]

\* a freshly constructed QuestManager, nothing called on it yet
FreshQuestManager ==
    /\ quests = QuestManager_init
    /\ q_last = NoCall
    /\ q_fed = {}
    /\ q_direct = FALSE
    /\ q_completions = 0

NoDialogueCall ==
    [op |-> "init", dialogue_id |-> "", start_node |-> "", offset |-> 0,
     pre |-> NoSession, events |-> << >>, ret |-> FALSE, returned |-> NoSession, error |-> None,
     undone |-> NoSession, nodes |-> << >>, had |-> {}, confirms |-> 0]

NoHostCall ==
    [op |-> "init", event_name |-> "", payload |-> NoPayload,
     dialogue_id |-> "", start_node |-> None, replaced |-> None, events |-> << >>,
     triggered |-> << >>, forwarded |-> FALSE, error |-> None]

\* no PlayState has been constructed
NoPlayState ==
    /\ play = << >>
    /\ h_last = NoHostCall

\* a freshly constructed DialogueManager(event_callback), nothing registered
FreshDialogueManager(event_callback) ==
    /\ dialogues = DialogueManager_init
    /\ dm_callback = event_callback
    /\ session = NoSession
    /\ d_last = NoDialogueCall

(***************************************************************************)
(* Inputs of the dialogue operations: the node sequences handed to         *)
(* register().                                                             *)
(***************************************************************************)
\* a branching root whose single choice leads to a final linear node
GraphTwoStep ==
    << DialogueNode("root", "t", None, << DialogueChoice("go", "end", None) >>, None, None),
       DialogueNode("end", "t", None, << >>, None, None) >>

\* a single linear node with an exit event
GraphExitOnly ==
    << DialogueNode("root", "t", None, << >>, None, "quest_begin") >>

\* choices with and without events and targets, enter and exit events on
\* both sides of a transition, a branching node that also has a next_id
GraphBranching ==
    << DialogueNode("root", "t", "end",
                    << DialogueChoice("forest", "forest", "travel_to_forest"),
                       DialogueChoice("quiet", "forest", None),
                       DialogueChoice("stay", None, "stayed"),
                       DialogueChoice("plain", "end", "picked_plain") >>,
                    "root_entered", "root_left"),
       DialogueNode("forest", "t", "root", << >>, "forest_entered", "forest_left"),
       DialogueNode("end", "t", None, << >>, None, "") >>

\* a linear cycle whose nodes share one event name, and a self loop
GraphCycle ==
    << DialogueNode("root", "t", "again", << >>, "tick", "tick"),
       DialogueNode("again", "t", "again", << >>, "tick", None) >>

\* targets that are not nodes of the graph
GraphDangling ==
    << DialogueNode("root", "t", None,
                    << DialogueChoice("lost", "missing", "jumped"),
                       DialogueChoice("on", "tail", None) >>,
                    None, None),
       DialogueNode("tail", "t", "missing", << >>, "tail_entered", "tail_left") >>

\* a repeated node id and no node called root
GraphRepeatedId ==
    << DialogueNode("intro", "first", "intro", << >>, "first_entered", None),
       DialogueNode("intro", "second", None, << >>, "second_entered", "second_left") >>

NodeSequences ==
    {GraphTwoStep, GraphExitOnly, GraphBranching, GraphCycle, GraphDangling, GraphRepeatedId}

DialogueIds == {"x", "y"}

StartNodes == {"root", "intro", "forest", "bogus_node"}

\* largest |offset| passed to move_choice
MaxOffset == 2

\* the longest list of interactables of a map
MaxInteractables == 9

Offsets == (0 - MaxOffset)..MaxOffset

InitDialogue ==
    /\ FreshQuestManager
    /\ \E event_callback \in BOOLEAN : FreshDialogueManager(event_callback)
    /\ NoPlayState

\* DialogueManager.register(dialogue_id, nodes); had are the node ids
\* registered under dialogue_id before the call
Register(dialogue_id, nodes) ==
    /\ dialogues' = DialogueManager_register(dialogues, dialogue_id, nodes)
    /\ d_last' = [NoDialogueCall EXCEPT !.op = "register", !.dialogue_id = dialogue_id, !.pre = session,
                                        !.nodes = nodes,
                                        !.had = IF dialogue_id \in DOMAIN dialogues
                                                THEN DOMAIN dialogues[dialogue_id] ELSE {}]
    /\ session' = IF session = NoSession THEN session
                  ELSE << [session[1] EXCEPT
                              !.nodes = HeldNodesAfterRegister(@, dialogues, dialogue_id, nodes)] >>
    /\ UNCHANGED <<dm_callback, outsideDialogue>>

\* session = DialogueManager.start(dialogue_id, start_node); the assignment
\* does not happen when start raises
Start(dialogue_id, start_node) ==
    LET r == DialogueManager_start(dialogues, dm_callback, dialogue_id, start_node)
    IN  /\ session' = IF r.error = None THEN r.session ELSE session
        /\ d_last' = [NoDialogueCall EXCEPT !.op = "start", !.dialogue_id = dialogue_id,
                                            !.start_node = start_node, !.pre = session,
                                            !.events = r.events, !.returned = r.session,
                                            !.error = r.error]
        /\ UNCHANGED <<dialogues, dm_callback, outsideDialogue>>

\* session.move_choice(offset)
MoveChoice(offset) ==
    /\ session # NoSession
    /\ session' = << DialogueSession_move_choice(session[1], offset) >>
    /\ d_last' = [NoDialogueCall EXCEPT !.op = "move_choice", !.offset = offset, !.pre = session]
    /\ UNCHANGED <<dialogues, dm_callback, outsideDialogue>>

\* session.move_choice(-k) right after session.move_choice(k); undone is the
\* session as it was before the first of the two calls
MoveChoiceBack ==
    /\ session # NoSession
    /\ d_last.op = "move_choice"
    /\ d_last.undone = NoSession
    /\ session' = << DialogueSession_move_choice(session[1], 0 - d_last.offset) >>
    /\ d_last' = [NoDialogueCall EXCEPT !.op = "move_choice", !.offset = 0 - d_last.offset,
                                        !.pre = session, !.undone = d_last.pre]
    /\ UNCHANGED <<dialogues, dm_callback, outsideDialogue>>

\* session.confirm()
Confirm ==
    /\ session # NoSession
    /\ LET r == DialogueSession_confirm(session[1])
       IN  /\ session' = << r.session >>
           /\ d_last' = [NoDialogueCall EXCEPT !.op = "confirm", !.pre = session,
                                               !.events = r.events, !.ret = r.ret, !.error = r.error]
    /\ UNCHANGED <<dialogues, dm_callback, outsideDialogue>>

\* session.cancel()
Cancel ==
    /\ session # NoSession
    /\ d_last' = [NoDialogueCall EXCEPT !.op = "cancel", !.pre = session,
                                        !.events = DialogueSession_cancel(session[1])]
    /\ UNCHANGED <<dialogues, dm_callback, session, outsideDialogue>>

RegisterStep == \E dialogue_id \in DialogueIds, nodes \in NodeSequences : Register(dialogue_id, nodes)

StartStep == \E dialogue_id \in DialogueIds \cup {"missing_id"}, start_node \in StartNodes : Start(dialogue_id, start_node)

MoveChoiceStep == \E offset \in Offsets : MoveChoice(offset)

NextDialogue ==
    \/ RegisterStep
    \/ StartStep
    \/ MoveChoiceStep
    \/ MoveChoiceBack
    \/ Confirm
    \/ Cancel

SpecDialogue == InitDialogue /\ [][NextDialogue]_vars

(***************************************************************************)
(* Inputs of the quest operations.                                         *)
(***************************************************************************)
QuestEventNames == {"quest_item_collected", "quest_item_dropped", ""}

\* dicts with or without an object_id (an id, the empty string or None) and
\* with or without an unrelated key
ObjectIdValues == ObjectIds \cup {"", None}

Dicts ==
    UNION {[ks -> ObjectIdValues] : ks \in SUBSET {"object_id"}}
    \cup {[k \in {"node_id"} |-> "root"]}
    \cup {[k \in {"object_id", "node_id"} |-> IF k = "object_id" THEN v ELSE "root"] : v \in ObjectIdValues}

Payloads == {NoPayload} \cup {DictPayload(d) : d \in Dicts}

QuestIds == {QUEST_FIND_ARTIFACTS, "side_quest", ""}

\* the object id a handle_event call records, None when the call is ignored
QualifyingId(event_name, payload) ==
    IF event_name = "quest_item_collected" /\ Truthy(DictGet(PayloadOrEmpty(payload), "object_id"))
    THEN DictGet(PayloadOrEmpty(payload), "object_id")
    ELSE None

InitQuest ==
    /\ FreshQuestManager
    /\ FreshDialogueManager(TRUE)
    /\ NoPlayState

\* a call of QuestManager.handle_event(event_name, payload)
HandleEvent(event_name, payload) ==
    LET r == QuestManager_handle_event(quests, event_name, payload)
        id == QualifyingId(event_name, payload)
    IN  /\ q_completions < MaxCompletions
        /\ quests' = r.quests
        /\ q_last' = [op |-> "handle_event", event_name |-> event_name, payload |-> payload,
                      arg |-> id, pre |-> quests, fed_pre |-> q_fed, actions |-> r.ret,
                      flag |-> FALSE, error |-> r.error]
        /\ q_fed' = IF id # None THEN q_fed \cup {id} ELSE q_fed
        /\ q_completions' = IF r.ret = <<"quest_completed">> THEN q_completions + 1 ELSE q_completions
        /\ UNCHANGED <<q_direct, outsideQuest>>

\* a call of QuestState.record_item(object_id) on the tracked quest
RecordItem(object_id) ==
    /\ quests' = [quests EXCEPT ![QUEST_FIND_ARTIFACTS] = QuestState_record_item(@, object_id)]
    /\ q_last' = [op |-> "record_item", event_name |-> "", payload |-> NoPayload,
                  arg |-> object_id, pre |-> quests, fed_pre |-> q_fed, actions |-> << >>,
                  flag |-> FALSE, error |-> None]
    /\ q_direct' = TRUE
    /\ UNCHANGED <<q_fed, q_completions, outsideQuest>>

\* a call of QuestManager.quest_completed(quest_id)
QuestCompleted(quest_id) ==
    LET r == QuestManager_quest_completed(quests, quest_id)
    IN  /\ quests' = r.quests
        /\ q_last' = [op |-> "quest_completed", event_name |-> "", payload |-> NoPayload,
                      arg |-> quest_id, pre |-> quests, fed_pre |-> q_fed, actions |-> << >>,
                      flag |-> r.ret, error |-> None]
        /\ UNCHANGED <<q_fed, q_direct, q_completions, outsideQuest>>

HandleEventStep == \E event_name \in QuestEventNames, payload \in Payloads : HandleEvent(event_name, payload)

RecordItemStep == \E object_id \in ObjectIds \cup {""} : RecordItem(object_id)

QuestCompletedStep == \E quest_id \in QuestIds : QuestCompleted(quest_id)

NextQuest ==
    \/ HandleEventStep
    \/ RecordItemStep
    \/ QuestCompletedStep

SpecQuest == InitQuest /\ [][NextQuest]_vars

(***************************************************************************)
(* The PlayState and the inputs that reach it.                             *)
(***************************************************************************)
\* interactables a village TMX file can supply: none, or an NPC, a quest item
\* with a handled event and a quest item whose event has no handler
TmxSally ==
    << NPC("npc_sally", "sally_missing"),
       QuestItem("sally_flower", "sally_flower_item", "flower_found"),
       QuestItem("old_coin", "village_sign", "coin_found") >>

TmxContents == {<< >>, TmxSally}

\* one key of each group that handle_event and _handle_dialogue_input tell
\* apart, and one they ignore
Keys == {"K_UP", "K_DOWN", "K_RETURN", "K_e", "K_ESCAPE", "K_q", "K_TAB"}

\* event names with a dedicated handler in notify_event
HandledEventNames ==
    {"travel_to_forest", "quest_begin", "quest_turn_in", "flower_found", "sally_complete", "show_ending"}

\* event names no handler and no quest knows
UnknownEventNames == {"quest_item_dropped", "coin_found", ""}

HostPayloads ==
    {NoPayload,
     DictPayload([k \in {"object_id"} |-> "stray_shard"])}

\* PlayState.dialogue_manager.dialogues: written only by _register_dialogues,
\* which the constructor runs, and the same in every state afterwards
HostRegistry == RegisterAll(DialogueManager_init, BuiltinDialogues)

\* PlayState.__init__
InitHost ==
    /\ FreshQuestManager
    /\ FreshDialogueManager(TRUE)
    /\ \E tmx_interactables \in TmxContents : play = << PlayState_init(tmx_interactables) >>
    /\ h_last = NoHostCall

\* the PlayState is on top of the state stack and no exception has ended the game loop
Running == ~play[1].left /\ h_last.error = None

\* a KEYDOWN event handed to PlayState.handle_event
KeyDown(key) ==
    /\ Running
    /\ LET r == PlayState_handle_event(play[1], HostRegistry, key)
       IN  /\ play' = << r.host >>
           /\ h_last' = [NoHostCall EXCEPT !.op = "handle_event", !.error = r.error]
    /\ UNCHANGED outsideHost

\* one PlayState.update(dt)
Update(moved_to) ==
    /\ Running
    /\ moved_to \in 0..Len(play[1].interactables[play[1].current_map])
    /\ LET r == PlayState_update(play[1], moved_to)
       IN  /\ play' = << r.host >>
           /\ h_last' = [NoHostCall EXCEPT !.op = "update", !.error = r.error]
    /\ UNCHANGED outsideHost

\* a call of PlayState.notify_event(event_name, payload)
NotifyEvent(event_name, payload) ==
    /\ Running
    /\ LET r == PlayState_notify_event(play[1], event_name, payload)
       IN  /\ play' = << r.host >>
           /\ h_last' = [NoHostCall EXCEPT !.op = "notify_event", !.event_name = event_name,
                                           !.payload = payload,
                                           !.triggered = r.triggered, !.forwarded = r.forwarded,
                                           !.error = r.error]
    /\ UNCHANGED outsideHost

KeyDownStep == \E key \in Keys : KeyDown(key)

UpdateStep == \E moved_to \in 0..MaxInteractables : Update(moved_to)

NotifyEventStep == \E event_name \in UnknownEventNames, payload \in HostPayloads : NotifyEvent(event_name, payload)

\* the play state driven by the game loop and by callers that hand
\* notify_event names it does not know
NextRouter ==
    \/ KeyDownStep
    \/ UpdateStep
    \/ NotifyEventStep

SpecRouter == InitHost /\ [][NextRouter]_vars

\* a dialogue whose start node has the enter event "show_ending", and whose
\* second node has an enter event and an exit event with handlers of their own
GraphEnding ==
    << DialogueNode("root", "t", "coda", << >>, "show_ending", None),
       DialogueNode("coda", "t", None, << >>, "quest_begin", "quest_turn_in") >>

\* a dialogue with dangling targets behind a choice event and behind an exit
\* event that have handlers
GraphBroken ==
    << DialogueNode("root", "t", None,
                    << DialogueChoice("lost", "missing", "sally_complete"),
                       DialogueChoice("on", "tail", None) >>,
                    None, None),
       DialogueNode("tail", "t", "missing", << >>, None, "quest_turn_in") >>

\* dialogues registered on PlayState.dialogue_manager after construction; the
\* built-in dialogues have no enter events
ContentDialogues ==
    << << "ending_hall", GraphEnding >>,
       << "crossroads", GraphBranching >>,
       << "broken_path", GraphBroken >> >>

\* PlayState.dialogue_manager.dialogues once the further dialogues are registered
ContentRegistry == RegisterAll(HostRegistry, ContentDialogues)

BeginDialogueIds == {"ending_hall", "crossroads", "broken_path", "mia_intro", "missing_id"}

\* start_node arguments: None stands for the default
BeginStartNodes == {None, "coda", "forest", "bogus_node"}

\* a call of PlayState.begin_dialogue(dialogue_id, start_node); replaced is the
\* node the session active before the call stood on
BeginDialogue(dialogue_id, start_node) ==
    /\ Running
    /\ LET r == begin_dialogue(play[1], ContentRegistry, dialogue_id, start_node)
       IN  /\ play' = << r.host >>
           /\ h_last' = [NoHostCall EXCEPT !.op = "begin_dialogue", !.dialogue_id = dialogue_id,
                                           !.start_node = start_node,
                                           !.replaced = IF play[1].active_dialogue = NoSession THEN None
                                                        ELSE play[1].active_dialogue[1].current_id,
                                           !.events = r.events, !.error = r.error]
    /\ UNCHANGED outsideHost

BeginDialogueStep ==
    \E dialogue_id \in BeginDialogueIds, start_node \in BeginStartNodes : BeginDialogue(dialogue_id, start_node)

\* the play state with callers of begin_dialogue and the keys of the dialogue
NextBegin ==
    \/ BeginDialogueStep
    \/ KeyDownStep

SpecBegin == InitHost /\ [][NextBegin]_vars

\* the event names a quest item of the village's TMX file can carry: those
\* with a dedicated handler, the quest's own, and one nobody knows
RoutedEventNames == HandledEventNames \cup {"quest_item_collected", "coin_found"}

\* the payloads of those events
RoutedPayloads == {NoPayload} \cup {DictPayload([k \in {"object_id"} |-> o]) : o \in ObjectIds}

RoutedEventStep ==
    \E event_name \in RoutedEventNames, payload \in RoutedPayloads : NotifyEvent(event_name, payload)

\* the play state, in the village, receiving events through notify_event
NextEvents == RoutedEventStep

SpecEvents == InitHost /\ [][NextEvents]_vars

\* interactables of a village TMX file: a door with a dialogue of its own that
\* leads to the forest, and a quest item whose dialogue id is not registered
TmxTrail ==
    << DoorInteractable("forest_gate", MAP_OUTSIDE_FOREST, <<900, 1100>>, "village_sign"),
       QuestItem("ghost_shard", "no_such_dialogue", "quest_item_collected") >>

\* PlayState.__init__ with the built-in maps only
InitBuiltin ==
    /\ FreshQuestManager
    /\ FreshDialogueManager(TRUE)
    /\ play = << PlayState_init(<< >>) >>
    /\ h_last = NoHostCall

\* PlayState.__init__ with the door and the quest item of TmxTrail in the village
InitTrail ==
    /\ FreshQuestManager
    /\ FreshDialogueManager(TRUE)
    /\ play = << PlayState_init(TmxTrail) >>
    /\ h_last = NoHostCall

\* the game loop: the key events of a frame, then update
NextLoop ==
    \/ KeyDownStep
    \/ UpdateStep

SpecBuiltin == InitBuiltin /\ [][NextLoop]_vars

SpecTrail == InitTrail /\ [][NextLoop]_vars

\* the most confirm() calls counted in one walk through a dialogue
MaxConfirms == 14

\* the host's dialogues and further ones, with and without cycles and
\* dangling references
WalkRegistry ==
    RegisterAll(ContentRegistry,
                << << "two_step", GraphTwoStep >>,
                   << "loop", GraphCycle >>,
                   << "dangling", GraphDangling >> >>)

InitWalk ==
    /\ FreshQuestManager
    /\ FreshDialogueManager(TRUE)
    /\ NoPlayState

\* the last confirm() returned True
WalkFinished == d_last.op = "confirm" /\ d_last.ret

\* the walk has ended: the dialogue is finished, confirm() raised, or the
\* count of confirm() calls has reached its bound
WalkOver == WalkFinished \/ d_last.error # None \/ d_last.confirms >= MaxConfirms

\* session = DialogueManager.start(dialogue_id), once the walk before is over
WalkStart(dialogue_id) ==
    /\ session = NoSession \/ WalkOver
    /\ LET r == DialogueManager_start(WalkRegistry, dm_callback, dialogue_id, "root")
       IN  /\ session' = IF r.error = None THEN r.session ELSE session
           /\ d_last' = [NoDialogueCall EXCEPT !.op = "start", !.dialogue_id = dialogue_id,
                                               !.start_node = "root", !.pre = session,
                                               !.events = r.events, !.returned = r.session,
                                               !.error = r.error]
    /\ UNCHANGED <<dialogues, dm_callback, outsideDialogue>>

\* session.move_choice(offset) during a walk
WalkMove(offset) ==
    /\ session # NoSession
    /\ ~WalkOver
    /\ session' = << DialogueSession_move_choice(session[1], offset) >>
    /\ d_last' = [NoDialogueCall EXCEPT !.op = "move_choice", !.offset = offset, !.pre = session,
                                        !.dialogue_id = d_last.dialogue_id,
                                        !.confirms = d_last.confirms]
    /\ UNCHANGED <<dialogues, dm_callback, outsideDialogue>>

\* session.confirm() during a walk; confirms counts the calls since start
WalkConfirm ==
    /\ session # NoSession
    /\ ~WalkOver
    /\ LET r == DialogueSession_confirm(session[1])
       IN  /\ session' = << r.session >>
           /\ d_last' = [NoDialogueCall EXCEPT !.op = "confirm", !.pre = session,
                                               !.dialogue_id = d_last.dialogue_id,
                                               !.events = r.events, !.ret = r.ret, !.error = r.error,
                                               !.confirms = d_last.confirms + 1]
    /\ UNCHANGED <<dialogues, dm_callback, outsideDialogue>>

WalkStartStep == \E dialogue_id \in DOMAIN WalkRegistry : WalkStart(dialogue_id)

WalkMoveStep == \E offset \in {-1, 1} : WalkMove(offset)

\* walks through the registered dialogues, one after the other
NextWalk ==
    \/ WalkStartStep
    \/ WalkMoveStep
    \/ WalkConfirm

\* the caller keeps confirming while the dialogue is open
SpecWalk == InitWalk /\ [][NextWalk]_vars /\ WF_vars(WalkConfirm)

(***************************************************************************)
(* Properties of the quest manager (SpecQuest).                            *)
(***************************************************************************)
\* the last call was a handle_event that carried "quest_item_collected" and a
\* non-empty object id
LastQualifying == q_last.op = "handle_event" /\ q_last.arg # None

TrackedBefore == q_last.pre[QUEST_FIND_ARTIFACTS]

\* C2: over any sequence of handle_event calls, "quest_completed" is
\* returned by at most one call.
C2_CompletedActionAtMostOnce == q_completions <= 1

\* a qualifying event with a new id arrives after the action was returned
C2_Witness ==
    /\ q_completions = 1
    /\ LastQualifying
    /\ TrackedBefore.completed
    /\ q_last.arg \notin TrackedBefore.items_collected

\* C3: the completed flag is monotonic: once true it is true in every later
\* state, whatever handle_event / record_item calls follow.
C3_CompletedMonotonic == [][Tracked.completed => Tracked'.completed]_vars

\* a record_item or a qualifying handle_event with a new id was applied to a
\* completed quest
C3_Witness ==
    /\ TrackedBefore.completed
    /\ Tracked.completed
    /\ q_last.op = "record_item" \/ LastQualifying
    /\ q_last.arg \notin TrackedBefore.items_collected

\* C4: in every reachable state, completed is true if and only if the number
\* of distinct ids in items_collected is at least items_required (3).
C4_CompletedIffEnoughItems ==
    /\ Tracked.items_required = 3
    /\ Tracked.completed <=> Cardinality(Tracked.items_collected) >= Tracked.items_required

\* the insertion that brought the set to three ids
C4_Witness ==
    /\ q_last.op \in {"record_item", "handle_event"}
    /\ ~TrackedBefore.completed
    /\ Cardinality(TrackedBefore.items_collected) = 2
    /\ Cardinality(Tracked.items_collected) = 3
    /\ Tracked.completed

\* C5: fed only quest_item_collected events with non-empty ids, a fresh
\* manager returns "quest_completed" on exactly the call that raises the
\* number of distinct ids fed to 3, and quest_completed(quest_id) is false
\* after every earlier call and true after that call and every later one.
C5_CompletedOnThirdDistinctId ==
    ~q_direct =>
        /\ q_last.op = "handle_event" =>
              (q_last.actions = <<"quest_completed">>
                  <=> Cardinality(q_last.fed_pre) < 3 /\ Cardinality(q_fed) >= 3)
        /\ QuestManager_quest_completed(quests, QUEST_FIND_ARTIFACTS).ret
              <=> Cardinality(q_fed) >= 3

\* the call that feeds the third distinct id
C5_Witness ==
    /\ ~q_direct
    /\ LastQualifying
    /\ Cardinality(q_last.fed_pre) = 2
    /\ Cardinality(q_fed) = 3
    /\ q_last.actions = <<"quest_completed">>

\* C6: a quest_item_collected event whose object_id is already in
\* items_collected leaves items_collected and completed unchanged and returns
\* no action.
C6_DuplicateIsNoOp ==
    (LastQualifying /\ q_last.arg \in TrackedBefore.items_collected) =>
        /\ Tracked.items_collected = TrackedBefore.items_collected
        /\ Tracked.completed = TrackedBefore.completed
        /\ q_last.actions = << >>

\* a duplicate delivered to a quest one item short of completion
C6_Witness ==
    /\ LastQualifying
    /\ q_last.arg \in TrackedBefore.items_collected
    /\ Cardinality(TrackedBefore.items_collected) = 2
    /\ ~Tracked.completed

\* C7 as stated: after any quest_item_collected event with a non-empty
\* object_id, that id is in items_collected, whatever the state before.
C7_Original_RecordedWhateverTheState ==
    LastQualifying => q_last.arg \in Tracked.items_collected

\* C7 amended: after a quest_item_collected event with a non-empty object_id
\* delivered to a quest that is not completed, that id is in items_collected;
\* delivered to a completed quest, the event leaves items_collected as it was.
C7_RecordedUnlessCompleted ==
    LastQualifying =>
        /\ ~TrackedBefore.completed => q_last.arg \in Tracked.items_collected
        /\ TrackedBefore.completed => Tracked.items_collected = TrackedBefore.items_collected

\* a new id is recorded into a quest that is not completed
C7_Witness ==
    /\ LastQualifying
    /\ ~TrackedBefore.completed
    /\ q_last.arg \notin TrackedBefore.items_collected
    /\ q_last.arg \in Tracked.items_collected

\* the payload of the last call is absent, has no object_id, or has an empty one
LastPayloadLacksId ==
    \/ q_last.payload = NoPayload
    \/ /\ Len(q_last.payload) = 1
       /\ \/ "object_id" \notin DOMAIN q_last.payload[1]
          \/ q_last.payload[1]["object_id"] = ""

\* C8: a quest_item_collected event whose payload is absent, lacks object_id
\* or has an empty object_id is ignored: no action, no error, items_collected
\* and completed unchanged.
C8_MalformedPayloadIgnored ==
    (q_last.op = "handle_event" /\ q_last.event_name = "quest_item_collected" /\ LastPayloadLacksId) =>
        /\ q_last.actions = << >>
        /\ q_last.error = None
        /\ quests = q_last.pre

\* a payload without object_id delivered to a quest in progress
C8_Witness ==
    /\ q_last.op = "handle_event"
    /\ q_last.event_name = "quest_item_collected"
    /\ Len(q_last.payload) = 1
    /\ "object_id" \notin DOMAIN q_last.payload[1]
    /\ Cardinality(Tracked.items_collected) = 2

\* C10: quest_completed(quest_id) mutates nothing, returns the tracked
\* quest's completed flag for its id and false for every other id.
C10_QuestCompletedIsPureQuery ==
    q_last.op = "quest_completed" =>
        /\ quests = q_last.pre
        /\ q_last.flag = (q_last.arg = Tracked.quest_id /\ Tracked.completed)

\* an untracked id is queried while the tracked quest is completed
C10_Witness ==
    /\ q_last.op = "quest_completed"
    /\ q_last.arg # Tracked.quest_id
    /\ Tracked.completed
    /\ ~q_last.flag

(***************************************************************************)
(* Properties of the dialogue session (SpecDialogue).                      *)
(***************************************************************************)
\* the last call was a confirm() that moved the session to a new node
LastConfirmMoved == d_last.op = "confirm" /\ d_last.error = None /\ ~d_last.ret

\* the node the last call started from
DepartedNode == current_node(d_last.pre[1])

\* the event of the departing node: the selected choice's event on a
\* branching node, the exit_event on a linear node
DepartingEvent ==
    IF has_choices(DepartedNode)
    THEN DepartedNode.choices[d_last.pre[1].choice_index + 1].event
    ELSE DepartedNode.exit_event

ArrivedNode == current_node(session[1])

\* C1: in every confirm() that moves to a new node, the event of the departing
\* node is delivered to the callback strictly before the arriving node's
\* enter_event, never after it.
C1_DepartingEventBeforeEnterEvent ==
    (LastConfirmMoved /\ session[1].event_callback
        /\ Truthy(DepartingEvent) /\ Truthy(ArrivedNode.enter_event)) =>
        d_last.events = << Delivery(DepartingEvent, DepartedNode.node_id),
                           Delivery(ArrivedNode.enter_event, ArrivedNode.node_id) >>

\* a choice carrying an event leads to a node with an enter event
C1_Witness ==
    /\ LastConfirmMoved
    /\ has_choices(DepartedNode)
    /\ d_last.events = << Delivery("travel_to_forest", "root"), Delivery("forest_entered", "forest") >>

\* the last call was DialogueManager.start
LastStart == d_last.op = "start"

\* the last call was a confirm()
LastConfirm == d_last.op = "confirm"

\* the session the last confirm(), cancel() or move_choice() was called on
Before == d_last.pre[1]

\* the target the last confirm() resolved: the selected choice's next_id on a
\* branching node, the node's next_id on a linear node
ResolvedNextId ==
    IF has_choices(DepartedNode)
    THEN DepartedNode.choices[Before.choice_index + 1].next_id
    ELSE DepartedNode.next_id

\* the calls a callback received for one optional event of a node
Delivered(event, node) ==
    IF Truthy(event) THEN << Delivery(event, node.node_id) >> ELSE << >>

\* C11: DialogueManager.start raises ValueError when the dialogue id is not
\* registered, and when it is registered but the start node is not a node of
\* that dialogue; in both cases it returns no session and delivers no event.
C11_StartFailsOnUnknownIdOrNode ==
    (LastStart /\ (d_last.dialogue_id \notin DOMAIN dialogues
                    \/ d_last.start_node \notin DOMAIN dialogues[d_last.dialogue_id])) =>
        /\ d_last.error = "ValueError"
        /\ d_last.returned = NoSession
        /\ d_last.events = << >>
        /\ session = d_last.pre

\* both failures happen: an unregistered id, and a registered dialogue that
\* has no node "root", each while an earlier session is held
C11_Witness ==
    /\ LastStart
    /\ d_last.error = "ValueError"
    /\ d_last.pre # NoSession
    /\ \/ d_last.dialogue_id \notin DOMAIN dialogues
       \/ /\ d_last.dialogue_id \in DOMAIN dialogues
          /\ d_last.start_node = "root"
          /\ "root" \notin DOMAIN dialogues[d_last.dialogue_id]

\* C12: confirm() on a node whose resolved next_id is None returns True and
\* leaves current_id and choice_index as they were; on a linear node with an
\* exit_event the callback receives exactly that event with the node's id.
C12_FinishingConfirmKeepsPosition ==
    (LastConfirm /\ ResolvedNextId = None) =>
        /\ d_last.ret
        /\ d_last.error = None
        /\ session[1].current_id = Before.current_id
        /\ session[1].choice_index = Before.choice_index
        /\ (~has_choices(DepartedNode) /\ Truthy(DepartedNode.exit_event) /\ Before.event_callback) =>
               d_last.events = << Delivery(DepartedNode.exit_event, Before.current_id) >>

\* a linear node with an exit event and no next_id is confirmed
C12_Witness ==
    /\ LastConfirm
    /\ d_last.ret
    /\ ~has_choices(DepartedNode)
    /\ d_last.events = << Delivery("quest_begin", "root") >>

\* C13: confirm() whose resolved next_id is a node of the graph sets
\* current_id to it, resets choice_index to 0, delivers the new node's
\* enter_event last if it has one, and returns False.
C13_MovingConfirmEntersTarget ==
    (LastConfirm /\ ResolvedNextId # None /\ ResolvedNextId \in DOMAIN Before.nodes) =>
        /\ ~d_last.ret
        /\ d_last.error = None
        /\ session[1].current_id = ResolvedNextId
        /\ session[1].choice_index = 0
        /\ session[1].nodes = Before.nodes
        /\ Before.event_callback =>
               d_last.events = Delivered(DepartingEvent, DepartedNode)
                                   \o Delivered(ArrivedNode.enter_event, ArrivedNode)

\* a choice other than the first one is confirmed and leads to a node with an
\* enter event
C13_Witness ==
    /\ LastConfirm
    /\ Before.choice_index > 0
    /\ session[1].current_id = "forest"
    /\ d_last.events = << Delivery("forest_entered", "forest") >>

\* C14: confirm() whose resolved next_id is set but is not a node of the
\* graph raises ValueError and leaves current_id and choice_index unchanged,
\* so the session does not point at a missing node.
C14_DanglingTargetRaises ==
    (LastConfirm /\ ResolvedNextId # None /\ ResolvedNextId \notin DOMAIN Before.nodes) =>
        /\ d_last.error = "ValueError"
        /\ session[1].current_id = Before.current_id
        /\ session[1].choice_index = Before.choice_index
        /\ session[1].current_id \in DOMAIN session[1].nodes

\* a linear node whose next_id names no node is confirmed
C14_Witness ==
    /\ LastConfirm
    /\ d_last.error = "ValueError"
    /\ Before.current_id = "tail"
    /\ session[1].current_id = "tail"

\* the selected choice of the node the last call started from
SelectedChoice == DepartedNode.choices[Before.choice_index + 1]

\* C15: on a branching node confirm() takes its target from the selected
\* choice's next_id and never from the node's own next_id: a selected choice
\* without next_id finishes the dialogue even if the node has a next_id.
C15_BranchingTargetIsTheChoice ==
    (LastConfirm /\ has_choices(DepartedNode)) =>
        /\ SelectedChoice.next_id = None => (d_last.ret /\ session = d_last.pre)
        /\ SelectedChoice.next_id \in DOMAIN Before.nodes =>
               (~d_last.ret /\ session[1].current_id = SelectedChoice.next_id)
        /\ (SelectedChoice.next_id # None /\ SelectedChoice.next_id \notin DOMAIN Before.nodes) =>
               d_last.error = "ValueError"

\* a choice without next_id is confirmed on a node that has a next_id
C15_Witness ==
    /\ LastConfirm
    /\ has_choices(DepartedNode)
    /\ DepartedNode.next_id = "end"
    /\ SelectedChoice.next_id = None
    /\ d_last.ret

\* the node ids carried by the payloads of the last call's deliveries
DeliveredNodeIds == [i \in DOMAIN d_last.events |-> d_last.events[i].payload[1]["node_id"]]

\* the node ids the last call's deliveries are owed: the start node at
\* construction, the departing node for a choice event or exit_event, the
\* entered node for an enter_event
OwnerNodeIds ==
    CASE d_last.op = "start"   -> IF d_last.error = None /\ Truthy(ArrivedNode.enter_event)
                                  THEN << d_last.start_node >> ELSE << >>
      [] d_last.op = "cancel"  -> IF Truthy(DepartedNode.exit_event)
                                  THEN << Before.current_id >> ELSE << >>
      [] d_last.op = "confirm" -> (IF Truthy(DepartingEvent) THEN << Before.current_id >> ELSE << >>)
                                      \o (IF LastConfirmMoved /\ Truthy(ArrivedNode.enter_event)
                                          THEN << ResolvedNextId >> ELSE << >>)
      [] OTHER                 -> << >>

\* C16: every event a session delivers carries the payload {node_id: n} with
\* n the node owning the event: the departing node for a choice event or
\* exit_event, the entered node for an enter_event, the start node for the
\* enter_event delivered at construction.
C16_PayloadNamesOwningNode ==
    /\ \A i \in DOMAIN d_last.events :
           /\ Len(d_last.events[i].payload) = 1
           /\ DOMAIN d_last.events[i].payload[1] = {"node_id"}
    /\ DeliveredNodeIds = (IF dm_callback THEN OwnerNodeIds ELSE << >>)

\* a confirm delivers a choice event owned by the departing node and an enter
\* event owned by the entered node
C16_Witness ==
    /\ LastConfirmMoved
    /\ DeliveredNodeIds = << "root", "forest" >>
    /\ d_last.events[1].name = "travel_to_forest"

\* C17 as stated: a single confirm() delivers zero or one event to the
\* callback, never more than one.
C17_Original_AtMostOneEvent ==
    LastConfirm => Len(d_last.events) <= 1

\* C17: a single confirm() delivers at most two events: at most one event of
\* the departing node (the selected choice's event on a branching node, the
\* exit_event on a linear node, never both) and, only when it moves, at most
\* one enter_event after it; a confirm() that finishes or raises delivers at
\* most one.
C17_AtMostOneDepartingAndOneEnter ==
    LastConfirm =>
        /\ Len(d_last.events) <= 2
        /\ ~LastConfirmMoved => Len(d_last.events) <= 1
        /\ Len(d_last.events) = 2 =>
               /\ d_last.events[1].name = DepartingEvent
               /\ d_last.events[2].name = ArrivedNode.enter_event

\* a confirm on a branching node that has an exit event delivers the choice
\* event and the entered node's enter event, two events in all
C17_Witness ==
    /\ LastConfirmMoved
    /\ has_choices(DepartedNode)
    /\ Truthy(DepartedNode.exit_event)
    /\ Len(d_last.events) = 2

\* C19: cancel() delivers the current node's exit_event, if it has one, with
\* the node's id in the payload, and nothing else: no enter event, and
\* current_id and choice_index stay as they were.
C19_CancelFiresExitOnly ==
    d_last.op = "cancel" =>
        /\ session = d_last.pre
        /\ d_last.events = (IF Before.event_callback /\ Truthy(DepartedNode.exit_event)
                            THEN << Delivery(DepartedNode.exit_event, Before.current_id) >>
                            ELSE << >>)

\* a node with both an enter event and an exit event is cancelled
C19_Witness ==
    /\ d_last.op = "cancel"
    /\ Truthy(DepartedNode.enter_event)
    /\ d_last.events = << Delivery("forest_left", "forest") >>

\* C20: move_choice(offset) delivers no event and never changes current_id;
\* on a node without choices it leaves choice_index unchanged; on a node with
\* n choices the new choice_index is in 0..n-1 and congruent to
\* choice_index + offset modulo n, for positive and negative offsets.
C20_MoveChoiceWrapsAround ==
    d_last.op = "move_choice" =>
        LET n == Len(DepartedNode.choices)
        IN  /\ d_last.events = << >>
            /\ session[1].current_id = Before.current_id
            /\ session[1].nodes = Before.nodes
            /\ n = 0 => session[1].choice_index = Before.choice_index
            /\ n > 0 =>
                   /\ session[1].choice_index \in 0 .. (n - 1)
                   /\ \E k \in (0 - MaxOffset) .. MaxOffset :
                          session[1].choice_index = Before.choice_index + d_last.offset + k * n

\* a negative offset from the first choice wraps to the last one
C20_Witness ==
    /\ d_last.op = "move_choice"
    /\ d_last.offset < 0
    /\ Before.choice_index = 0
    /\ session[1].choice_index = Len(DepartedNode.choices) - 1
    /\ Len(DepartedNode.choices) > 2

\* the last call was the move_choice(-k) of a pair move_choice(k), move_choice(-k)
LastMoveUndone == d_last.op = "move_choice" /\ d_last.undone # NoSession

\* C21: on a node with at least one choice and for any integer k,
\* move_choice(k) followed by move_choice(-k) returns choice_index to the
\* value it had before the two calls.
C21_MoveChoiceRoundTrip ==
    (LastMoveUndone /\ has_choices(current_node(d_last.undone[1]))) =>
        /\ session[1].choice_index = d_last.undone[1].choice_index
        /\ session[1].current_id = d_last.undone[1].current_id

\* the first call wrapped past the last choice and the second one wrapped back
C21_Witness ==
    /\ LastMoveUndone
    /\ Len(DepartedNode.choices) = 4
    /\ d_last.undone[1].choice_index = 3
    /\ Before.choice_index = 1
    /\ d_last.offset = -2
    /\ session[1].choice_index = 3

\* the node ids occurring in the sequence handed to the last register call
RegisteredIds == {d_last.nodes[i].node_id : i \in DOMAIN d_last.nodes}

\* C26: register(dialogue_id, nodes) keeps, for each node_id, the last node of
\* the sequence with that id, and stores nothing else under dialogue_id: the
\* graph registered there before is replaced as a whole, and a session
\* started afterwards holds exactly the stored graph, so that it can reach no
\* node of the previous graph that is absent from the new sequence.
C26_RegisterLastWinsAndReplaces ==
    /\ d_last.op = "register" =>
           /\ DOMAIN dialogues[d_last.dialogue_id] = RegisteredIds
           /\ \A i \in DOMAIN d_last.nodes :
                  (\A j \in DOMAIN d_last.nodes : j > i => d_last.nodes[j].node_id # d_last.nodes[i].node_id)
                      => dialogues[d_last.dialogue_id][d_last.nodes[i].node_id] = d_last.nodes[i]
    /\ (LastStart /\ d_last.error = None) =>
           /\ session[1].nodes = dialogues[d_last.dialogue_id]
           /\ session[1].current_id \in DOMAIN dialogues[d_last.dialogue_id]

\* a sequence with a repeated node id is registered under an id that held a
\* graph with a node "root": the second "intro" is kept and "root" is gone
C26_Witness ==
    /\ d_last.op = "register"
    /\ d_last.nodes = GraphRepeatedId
    /\ "root" \in d_last.had
    /\ dialogues[d_last.dialogue_id]["intro"].text = "second"
    /\ "root" \notin DOMAIN dialogues[d_last.dialogue_id]

\* the next_id and choice targets of a graph that are not nodes of it
DanglingTargets(nodes) ==
    {t \in {nodes[id].next_id : id \in DOMAIN nodes}
               \cup UNION {{nodes[id].choices[i].next_id : i \in DOMAIN nodes[id].choices} : id \in DOMAIN nodes} :
        t # None /\ t \notin DOMAIN nodes}

\* C27: register() and start() succeed on a graph that contains a dangling
\* next_id or choice target; ValueError for a missing node is raised only by
\* the confirm() whose resolved next_id is the missing node, and by no
\* earlier call.
C27_DanglingSurfacesOnlyAtConfirm ==
    /\ d_last.op = "register" => (d_last.error = None /\ d_last.dialogue_id \in DOMAIN dialogues)
    /\ (LastStart /\ d_last.dialogue_id \in DOMAIN dialogues
            /\ d_last.start_node \in DOMAIN dialogues[d_last.dialogue_id]) =>
           (d_last.error = None /\ d_last.returned # NoSession)
    /\ d_last.op \in {"move_choice", "cancel"} => d_last.error = None
    /\ LastConfirm =>
           (d_last.error = "ValueError" <=> ResolvedNextId \in DanglingTargets(Before.nodes))

\* a confirm has moved, without error, onto a node whose next_id is dangling,
\* in a graph whose start node has a dangling choice target as well
C27_Witness ==
    /\ LastConfirmMoved
    /\ ArrivedNode.next_id \in DanglingTargets(session[1].nodes)
    /\ \E i \in DOMAIN DepartedNode.choices :
           DepartedNode.choices[i].next_id \in DanglingTargets(session[1].nodes)

\* the nodes a confirm() on node id can move to
Successors(nodes, id) ==
    ({nodes[id].choices[i].next_id : i \in DOMAIN nodes[id].choices}
         \cup (IF has_choices(nodes[id]) THEN {} ELSE {nodes[id].next_id}))
        \ {None}

RECURSIVE OnCycles(_, _)
\* what is left of the node ids in remaining once the nodes without successor
\* among them are removed again and again: empty iff the graph has no cycle
OnCycles(nodes, remaining) ==
    LET sinks == {id \in remaining : Successors(nodes, id) \cap remaining = {}}
    IN  IF sinks = {} THEN remaining ELSE OnCycles(nodes, remaining \ sinks)

\* the graph has no cycle and no dangling reference that a confirm() follows
Terminating(nodes) ==
    /\ \A id \in DOMAIN nodes : Successors(nodes, id) \subseteq DOMAIN nodes
    /\ OnCycles(nodes, DOMAIN nodes) = {}

\* a walk through a graph without cycle and dangling reference is under way
WalkingTerminatingGraph ==
    /\ session # NoSession
    /\ ~WalkOver
    /\ Terminating(session[1].nodes)

\* C28: in a graph with no cycle and no dangling reference, whatever choice
\* is selected at each branching node, repeated confirm() calls from the start
\* node raise nothing and eventually return True, after at most as many calls
\* as the graph has nodes; every dialogue graph the host registers is such a
\* graph.
C28_WalkTerminates ==
    /\ [](\A id \in DOMAIN HostRegistry : Terminating(HostRegistry[id]))
    /\ []((session # NoSession /\ Terminating(session[1].nodes)) =>
              /\ d_last.error = None
              /\ d_last.confirms <= Cardinality(DOMAIN session[1].nodes)
              /\ d_last.confirms = Cardinality(DOMAIN session[1].nodes) => WalkFinished)
    /\ (WalkingTerminatingGraph ~> WalkFinished)

\* the host's longest dialogue has been walked to its end through the second
\* choice of its branching node, one confirm() per node
C28_Witness ==
    /\ WalkFinished
    /\ d_last.dialogue_id = "mia_confession"
    /\ Before.current_id = "ending"
    /\ d_last.confirms = Cardinality(DOMAIN session[1].nodes)
    /\ d_last.confirms = 13

\* C29: in every reachable state of a session, choice_index is 0 when the
\* current node has no choices and satisfies 0 <= choice_index < number of
\* choices when it has some, so that choices[choice_index] in confirm() is a
\* valid index.
C29_ChoiceIndexInRange ==
    session # NoSession =>
        LET n == Len(current_node(session[1]).choices)
        IN  IF n = 0
            THEN session[1].choice_index = 0
            ELSE session[1].choice_index \in 0 .. (n - 1)

\* move_choice has stepped past the last of four choices
C29_Witness ==
    /\ d_last.op = "move_choice"
    /\ d_last.undone = NoSession
    /\ Len(DepartedNode.choices) = 4
    /\ Before.choice_index = 3
    /\ d_last.offset = 2
    /\ session[1].choice_index = 1

\* C30: in every reachable state of a session, after any sequence of
\* move_choice, confirm (moving, completing or failing) and cancel,
\* current_id is the id of a node of the session's graph.
C30_CurrentIdIsANode ==
    session # NoSession => session[1].current_id \in DOMAIN session[1].nodes

\* a confirm on a choice whose target is missing has failed and the session
\* still stands on the branching node
C30_Witness ==
    /\ LastConfirm
    /\ d_last.error = "ValueError"
    /\ has_choices(DepartedNode)
    /\ SelectedChoice.next_id = "missing"
    /\ session[1].current_id = "root"

\* the deliveries of the last call, as a set
DeliveredSet == {d_last.events[i] : i \in DOMAIN d_last.events}

\* C32: confirm() on a branching node never delivers that node's exit_event,
\* whichever choice is selected: what it delivers is the selected choice's
\* event and, when it moves, the entered node's enter_event; cancel() on the
\* same node does deliver the exit_event.
C32_BranchingConfirmSkipsExitEvent ==
    (d_last.op \in {"confirm", "cancel"} /\ has_choices(DepartedNode)
        /\ Truthy(DepartedNode.exit_event) /\ Before.event_callback) =>
        /\ LastConfirm =>
               /\ d_last.events = Delivered(SelectedChoice.event, DepartedNode)
                                      \o (IF LastConfirmMoved
                                          THEN Delivered(ArrivedNode.enter_event, ArrivedNode)
                                          ELSE << >>)
               /\ (SelectedChoice.event # DepartedNode.exit_event
                       /\ ~(LastConfirmMoved /\ ArrivedNode = DepartedNode
                               /\ ArrivedNode.enter_event = DepartedNode.exit_event)) =>
                      Delivery(DepartedNode.exit_event, DepartedNode.node_id) \notin DeliveredSet
        /\ d_last.op = "cancel" =>
               Delivery(DepartedNode.exit_event, DepartedNode.node_id) \in DeliveredSet

\* a choice without event is confirmed on a branching node that has an exit
\* event: only the entered node's enter event is delivered
C32_Witness ==
    /\ LastConfirmMoved
    /\ has_choices(DepartedNode)
    /\ DepartedNode.exit_event = "root_left"
    /\ SelectedChoice.text = "quiet"
    /\ d_last.events = << Delivery("forest_entered", "forest") >>

(***************************************************************************)
(* Properties of the event routing in the PlayState (SpecRouter).          *)
(***************************************************************************)
\* the dialogue each interactable of each map is bound to
DialogueBindings(h) ==
    [m \in DOMAIN h.interactables |->
        [i \in DOMAIN h.interactables[m] |-> h.interactables[m][i].dialogue_id]]

\* the step is a notify_event call with a name that is neither
\* "quest_item_collected" nor one of the names with a dedicated handler
UnknownEventNotified ==
    /\ h_last'.op = "notify_event"
    /\ h_last'.event_name \notin HandledEventNames \cup {"quest_item_collected"}

\* C9: an event whose name is neither "quest_item_collected" nor a
\* dedicated-handler name, delivered through notify_event, raises no error,
\* makes handle_event return no actions, and leaves quest state, the active
\* session, the NPC dialogue bindings, the pending map change and the ending
\* flag unchanged.
C9_UnknownEventIgnored ==
    [][UnknownEventNotified =>
          /\ h_last'.error = None
          /\ h_last'.triggered = << >>
          /\ play'[1].quests = play[1].quests
          /\ play'[1].active_dialogue = play[1].active_dialogue
          /\ DialogueBindings(play'[1]) = DialogueBindings(play[1])
          /\ play'[1].pending_map_change = play[1].pending_map_change
          /\ play'[1].end_screen_active = play[1].end_screen_active]_vars

\* an unknown event carrying an object id arrives during a dialogue, with the
\* quest one item short of completion
C9_Witness ==
    /\ h_last.op = "notify_event"
    /\ h_last.event_name = "quest_item_dropped"
    /\ h_last.payload = DictPayload([k \in {"object_id"} |-> "stray_shard"])
    /\ play[1].active_dialogue # NoSession
    /\ Cardinality(play[1].quests[QUEST_FIND_ARTIFACTS].items_collected) = 2

(***************************************************************************)
(* Properties of PlayState.begin_dialogue (SpecBegin).                     *)
(***************************************************************************)
\* the step is a call of begin_dialogue
BeginDialogueCalled == h_last'.op = "begin_dialogue"

\* the start node the call names, "root" by default
CalledStartNode == IF Truthy(h_last'.start_node) THEN h_last'.start_node ELSE "root"

\* the call names a registered dialogue and one of its nodes
CalledNodeExists ==
    /\ h_last'.dialogue_id \in DOMAIN ContentRegistry
    /\ CalledStartNode \in DOMAIN ContentRegistry[h_last'.dialogue_id]

\* the session begin_dialogue constructs
ConstructedSession ==
    [nodes          |-> ContentRegistry[h_last'.dialogue_id],
     current_id     |-> CalledStartNode,
     event_callback |-> TRUE,
     choice_index   |-> 0]

\* the play state as notify_event leaves it when the start node's enter
\* event, if it has one, reaches it in the state before the call
EnterEventHandled ==
    LET node == ContentRegistry[h_last'.dialogue_id][CalledStartNode]
    IN  DeliverAll(play[1], Delivered(node.enter_event, node))

\* C18: constructing a session delivers the start node's enter_event, if set,
\* before the session is handed to the caller: in begin_dialogue, notify_event
\* for that event runs on the play state whose active_dialogue still holds
\* its previous value, and active_dialogue is assigned the new session only
\* afterwards, so the new session survives a handler that clears
\* active_dialogue; when start raises, nothing is delivered or assigned.
C18_EnterEventBeforeAssignment ==
    [][BeginDialogueCalled =>
          IF CalledNodeExists
          THEN /\ h_last'.error = None
               /\ play'[1] = [EnterEventHandled EXCEPT !.active_dialogue = << ConstructedSession >>]
          ELSE /\ h_last'.error = "ValueError"
               /\ play' = play]_vars

\* a dialogue whose start node's enter event is "show_ending" has been begun:
\* the handler has set the ending flag and rebound the NPC, and the session
\* assigned after it is the active one
C18_Witness ==
    /\ h_last.op = "begin_dialogue"
    /\ h_last.dialogue_id = "ending_hall"
    /\ h_last.error = None
    /\ play[1].end_screen_active
    /\ play[1].active_dialogue # NoSession
    /\ play[1].active_dialogue[1].current_id = "root"
    /\ play[1].pending_map_change # NoMapChange

\* C22: starting a new dialogue while a prior session is still active replaces
\* the prior session without delivering the exit_event of the prior session's
\* current node: the only event delivered by the start is the enter_event of
\* the new session's start node, and the play state shows the effect of that
\* event alone.
C22_ReplacedSessionGetsNoExitEvent ==
    [][(BeginDialogueCalled /\ play[1].active_dialogue # NoSession /\ CalledNodeExists) =>
          LET node == ContentRegistry[h_last'.dialogue_id][CalledStartNode]
          IN  /\ h_last'.events = Delivered(node.enter_event, node)
              /\ play'[1].active_dialogue = << ConstructedSession >>
              /\ ~Truthy(node.enter_event) =>
                     play'[1] = [play[1] EXCEPT !.active_dialogue = << ConstructedSession >>]]_vars

\* a dialogue without enter event is begun while the active session stands on
\* a node whose exit_event "quest_turn_in" would rebind elder_rhea: nothing
\* is delivered and the binding is the initial one
C22_Witness ==
    /\ h_last.op = "begin_dialogue"
    /\ h_last.replaced = "coda"
    /\ h_last.dialogue_id = "mia_intro"
    /\ h_last.events = << >>
    /\ play[1].active_dialogue # NoSession
    /\ play[1].active_dialogue[1].current_id = "root"
    /\ \E i \in DOMAIN play[1].interactables[MAP_OUTSIDE_FOREST] :
           /\ play[1].interactables[MAP_OUTSIDE_FOREST][i].object_id = "elder_rhea"
           /\ play[1].interactables[MAP_OUTSIDE_FOREST][i].dialogue_id = "quest_complete"

(***************************************************************************)
(* Properties of notify_event's routing (SpecEvents).                      *)
(***************************************************************************)
\* the step is a notify_event call with a name that has a dedicated handler
HandledEventNotified ==
    /\ h_last'.op = "notify_event"
    /\ h_last'.event_name \in HandledEventNames

\* the step is a notify_event call with a name that has no dedicated handler
UnhandledEventNotified ==
    /\ h_last'.op = "notify_event"
    /\ h_last'.event_name \notin HandledEventNames

\* C23: events named travel_to_forest, quest_begin, quest_turn_in,
\* flower_found, sally_complete and show_ending are consumed by their
\* dedicated handlers in notify_event and never forwarded to
\* QuestManager.handle_event; delivering one of them leaves the quest's
\* items_collected and completed unchanged.
C23_HandledEventsBypassQuestManager ==
    [][HandledEventNotified =>
          /\ ~h_last'.forwarded
          /\ h_last'.triggered = << >>
          /\ h_last'.error = None
          /\ play'[1].quests = play[1].quests]_vars

\* "flower_found" arrives with an object id the quest has not seen, the quest
\* one item short of completion, and is not forwarded
C23_Witness ==
    /\ h_last.op = "notify_event"
    /\ h_last.event_name = "flower_found"
    /\ h_last.payload # NoPayload
    /\ ~h_last.forwarded
    /\ Cardinality(play[1].quests[QUEST_FIND_ARTIFACTS].items_collected) = 2
    /\ h_last.payload[1]["object_id"] \notin play[1].quests[QUEST_FIND_ARTIFACTS].items_collected

\* the dialogue npc_mia is bound to
MiaDialogue(h) ==
    LET list == h.interactables[MAP_OUTSIDE_VILLAGE]
        i    == CHOOSE i \in DOMAIN list : list[i].object_id = "npc_mia"
    IN  list[i].dialogue_id

QuestDone(h) == h.quests[QUEST_FIND_ARTIFACTS].completed

ConfirmRaised ==
    /\ h_last'.op = "handle_event"
    /\ h_last'.error = "ValueError"
    /\ play[1].active_dialogue # NoSession

\* the play state with the reference to the session left out
Outside(h) == [h EXCEPT !.active_dialogue = NoSession]

\* C31: when confirm() raises ValueError because of a dangling target, the
\* departing node's choice event or exit_event has already reached
\* notify_event and its effects stay: the session is as it was before the
\* call, the play state is as the handler left it.
C31_FailedConfirmKeepsHandlerEffects ==
    [][ConfirmRaised =>
          LET s    == play[1].active_dialogue[1]
              node == current_node(s)
              left == IF has_choices(node) THEN node.choices[s.choice_index + 1].event
                      ELSE node.exit_event
          IN  /\ play'[1].active_dialogue \in {NoSession, << s >>}
              /\ Outside(play'[1]) = Outside(DeliverAll(play[1], Delivered(left, node)))]_vars

\* confirm() has raised on the choice whose event is "sally_complete": the
\* prompt the handler wrote is there and the session stands where it stood
C31_Witness ==
    /\ h_last.op = "handle_event"
    /\ h_last.error = "ValueError"
    /\ play[1].current_prompt = "You obtained a Heart Shard!"
    /\ play[1].active_dialogue # NoSession
    /\ play[1].active_dialogue[1].current_id = "root"
    /\ play[1].active_dialogue[1].choice_index = 0

InteractionRaised ==
    /\ h_last'.op = "handle_event"
    /\ h_last'.error = "ValueError"
    /\ play[1].active_dialogue = NoSession

\* the interactable in focus
Focused(h) == h.interactables[h.focus_interactable[1].map][h.focus_interactable[1].index]

\* C33: a start() that raises delivers no event and a begin_dialogue that
\* fails leaves active_dialogue as it was, so that a quest item whose dialogue
\* id is not registered, when interacted with, emits no quest event (the
\* quest is unchanged) and stays enabled.
C33_FailedBeginEmitsNothing ==
    [][InteractionRaised =>
          /\ play'[1].active_dialogue = play[1].active_dialogue
          /\ play'[1].quests = play[1].quests
          /\ play'[1].interactables = play[1].interactables
          /\ play'[1].current_prompt = play[1].current_prompt
          /\ play'[1].pending_map_change = play[1].pending_map_change]_vars

\* the interaction with the quest item whose dialogue is not registered has
\* raised, the quest one item short of completion: the item is enabled and
\* the quest still lacks it
C33_Witness ==
    /\ h_last.op = "handle_event"
    /\ h_last.error = "ValueError"
    /\ play[1].active_dialogue = NoSession
    /\ play[1].focus_interactable # << >>
    /\ Focused(play[1]).object_id = "ghost_shard"
    /\ Focused(play[1]).enabled
    /\ Cardinality(play[1].quests[QUEST_FIND_ARTIFACTS].items_collected) = 2
    /\ ~QuestDone(play[1])

\* the enabled flags of all interactables
EnabledFlags(h) ==
    [m \in DOMAIN h.interactables |->
        [i \in DOMAIN h.interactables[m] |-> h.interactables[m][i].enabled]]

\* C34: while active_dialogue is set, every key press goes to the session
\* (move_choice, confirm or cancel) and never to an interactable, and no
\* handler starts a dialogue: a set active_dialogue is followed by the same
\* session after one of its own operations, or by none, and no interactable
\* is disabled meanwhile.
C34_ActiveSessionTakesEveryKey ==
    [][play[1].active_dialogue # NoSession =>
          LET s == play[1].active_dialogue[1]
          IN  /\ play'[1].active_dialogue \in
                     {NoSession, << s >>,
                      << DialogueSession_move_choice(s, -1) >>,
                      << DialogueSession_move_choice(s, 1) >>,
                      << DialogueSession_confirm(s).session >>}
              /\ EnabledFlags(play'[1]) = EnabledFlags(play[1])]_vars

\* the interaction key, pressed twice during mia_intro with npc_mia still in
\* focus, has advanced the session to its third node
C34_Witness ==
    /\ h_last.op = "handle_event"
    /\ play[1].active_dialogue # NoSession
    /\ play[1].active_dialogue[1].nodes = HostRegistry["mia_intro"]
    /\ play[1].active_dialogue[1].current_id = "line3"
    /\ play[1].focus_interactable # << >>
    /\ Focused(play[1]).object_id = "npc_mia"

\* C35: whenever end_screen_active is true after a handler, active_dialogue
\* is absent; and once end_screen_active is true, a key press reaches neither
\* a session nor an interactable (it can only leave for the main menu) and
\* update() changes nothing.
C35_EndScreenFreezesPlay ==
    [][/\ play'[1].end_screen_active => play'[1].active_dialogue = NoSession
       /\ play[1].end_screen_active =>
              /\ play'[1] \in {play[1], [play[1] EXCEPT !.left = TRUE]}
              /\ h_last'.op = "update" => play'[1] = play[1]
              /\ play'[1].left =>
                     /\ h_last'.op = "handle_event"
                     /\ h_last'.error = None]_vars

\* an update() has run on the end screen, the player still standing next to
\* npc_mia, whose dialogue show_ending has rebound
C35_Witness ==
    /\ play[1].end_screen_active
    /\ h_last.op = "update"
    /\ ~play[1].left
    /\ play[1].player_near = 2
    /\ play[1].interactables[MAP_OUTSIDE_VILLAGE][2].dialogue_id = "mia_epilogue"
    /\ play[1].focus_interactable = << >>

\* the request a door makes when it is interacted with
DoorRequest(door) == << [map_id |-> door.target_map, spawn |-> door.target_spawn] >>

C37_Deferred ==
    /\ h_last.op = "update"
    /\ play[1].active_dialogue # NoSession
    /\ play[1].pending_map_change = << [map_id |-> MAP_OUTSIDE_FOREST, spawn |-> <<900, 1100>>] >>
    /\ play[1].current_map = MAP_OUTSIDE_VILLAGE

\* the step is a key press that ends the active session
SessionEndedByKey ==
    /\ h_last'.op = "handle_event"
    /\ play[1].active_dialogue # NoSession
    /\ play'[1].active_dialogue = NoSession

C39_ElderRebound ==
    /\ play[1].current_map = MAP_OUTSIDE_FOREST
    /\ play[1].active_dialogue = NoSession
    /\ play[1].interactables[MAP_OUTSIDE_FOREST][1].dialogue_id = "quest_epilogue"

(***************************************************************************)
(* Properties of the game loop with the built-in content only              *)
(* (SpecBuiltin).                                                          *)
(***************************************************************************)
\* the quest items recorded for the tracked quest
ItemsCollected(h) == h.quests[QUEST_FIND_ARTIFACTS].items_collected

\* C36: with the built-in maps and dialogues, end_screen_active is true only
\* in states where the tracked quest is completed, and npc_mia is bound to
\* mia_confession (and to what follows it) only when three distinct quest
\* items have been collected.
C36_EndingOnlyAfterQuest ==
    /\ play[1].end_screen_active => QuestDone(play[1])
    /\ MiaDialogue(play[1]) # "mia_intro" =>
           /\ Cardinality(ItemsCollected(play[1])) >= 3
           /\ ItemsCollected(play[1]) \subseteq {"quest_totem_a", "quest_totem_b", "quest_totem_c"}
    /\ MiaDialogue(play[1]) \in {"mia_intro", "mia_confession", "mia_epilogue"}

\* npc_mia has just been rebound: the third totem's dialogue is open and the
\* quest is complete with three items; and the ending is reachable
C36_Witness ==
    /\ MiaDialogue(play[1]) = "mia_confession"
    /\ play[1].active_dialogue # NoSession
    /\ QuestDone(play[1])
    /\ Cardinality(ItemsCollected(play[1])) = 3
    /\ ~play[1].end_screen_active

\* the end screen is shown
C36_EndingReached ==
    /\ play[1].end_screen_active
    /\ QuestDone(play[1])
    /\ MiaDialogue(play[1]) = "mia_epilogue"

\* the step is a key press that interacts with the quest item in focus and
\* starts its dialogue; QuestItem.interact then delivers the item's quest event
QuestItemInteracts ==
    /\ h_last'.op = "handle_event"
    /\ h_last'.error = None
    /\ ~play[1].end_screen_active
    /\ play[1].active_dialogue = NoSession
    /\ play[1].focus_interactable # << >>
    /\ Focused(play[1]).kind = "quest_item"
    /\ play'[1].active_dialogue # NoSession

\* C38: each QuestItem delivers its quest event at most once: interact
\* disables the item, enabled is never set again, and an item that has been
\* disabled is not interacted with, so every interaction that delivers the
\* event finds the item enabled.
C38_QuestItemEventAtMostOnce ==
    [][QuestItemInteracts => Focused(play[1]).enabled]_vars

====
